---- MODULE Spec2Model ----
(***************************************************************************)
(* Family chores: the chore lifecycle (api/routes/chores.js), the          *)
(* recurring template engine (recurring routes and the scheduler) and the  *)
(* relational schema with its foreign-key cascades.                        *)
(*                                                                         *)
(* Rows are records, tables are functions from the AUTO_INCREMENT id to    *)
(* the row.  Timestamps are whole hours; a calendar date is a day number.  *)
(* A row inserted later has a larger id and a later timestamp, so "ORDER   *)
(* BY <timestamp> DESC LIMIT 1" is the row with the largest id.            *)
(***************************************************************************)
EXTENDS Integers, Sequences, FiniteSets, TLC

\* ---------------------------------------------------------------- bounds
MaxChores == 1        \* chores ever inserted (AUTO_INCREMENT of chores)
MaxRows == 2          \* rows ever inserted per dependent table
MaxTemplates == 1     \* recurring_chores rows ever inserted
MaxGenerated == 2     \* recurring_chore_history rows ever inserted
MaxDay == 2           \* last calendar day the clock reaches
MaxPatches == 1       \* PATCH /chores/:id requests served in a behaviour
MaxProcs == 2         \* requests in flight at the same time
BatchSize == 2        \* due templates of one generation batch
MaxAttempts == 6      \* failed logins counted per account
MaxTransactions == 3  \* transactions ever begun by POST /chores
RateMaxAttempts == 2  \* maxAttempts of the limiter under check
RateWindow == 12      \* windowMs of the limiter under check, in hours
MaxPassed == 6        \* requests the limiter passes in a behaviour

\* ------------------------------------------------------------- constants
NULL == 0
DueHour == 9          \* nextDueDate.setHours(9, 0, 0, 0)
CronHour == 6         \* RECURRING_CHORES_SCHEDULE '0 6 * * *'
LockThreshold == 5    \* newAttempts >= 5
LockMinutes == 15     \* Date.now() + 15 * 60 * 1000

UserIds == 1..4
\* The role each user was registered with.
InitialRole(u) == IF u \in {1, 4} THEN "parent" ELSE "child"
FamilyOf(u) == IF u = 4 THEN 2 ELSE 1

ChoreStatus == {"available", "assigned", "pending_acceptance", "auto_accepted",
                "in_progress", "pending_approval", "completed", "cancelled"}
RewardType == {"money", "screen_time"}
RewardAmounts == {1, 2}

VARIABLES
  users,                   \* users: id -> [earnings, screen_time_earned, role,
                           \*   login_attempts, locked_until (in minutes)]
  chores,                  \* chores: id -> row
  chore_assignments,       \* chore_assignments: id -> row
  chore_submissions,       \* chore_submissions: id -> row
  completed_tasks,         \* completed_tasks: id -> row
  recurring_chores,        \* recurring_chores: id -> row
  recurring_chore_history, \* recurring_chore_history: id -> row
  autoinc,                 \* AUTO_INCREMENT counter of every table
  now,                     \* the clock, in hours
  patched,                 \* number of PATCH /chores/:id requests served
  attempts,                \* the Map of authRateLimit: ip -> [count, resetTime]
  procs                    \* requests in flight (interleaved specification)

db == <<users, chores, chore_assignments, chore_submissions, completed_tasks,
        recurring_chores, recurring_chore_history, autoinc>>
vars == <<users, chores, chore_assignments, chore_submissions, completed_tasks,
          recurring_chores, recurring_chore_history, autoinc, now, patched, attempts, procs>>

\* req.user.role: the role column of the caller's row, as protect loads it.
Role(u) == users[u].role

\* ---------------------------------------------------------- table helpers
Max(S) == CHOOSE x \in S : \A y \in S : y <= x

Insert(table, id, row) == [i \in DOMAIN table \cup {id} |-> IF i = id THEN row ELSE table[i]]

\* ------------------------------------------------------ latest-row queries
\* SELECT * FROM chore_assignments WHERE chore_id = ? AND user_id = ?
\*   ORDER BY assigned_at DESC LIMIT 1          (NULL when no row matches)
LatestAssignment(choreId, userId) ==
  LET S == {i \in DOMAIN chore_assignments :
              /\ chore_assignments[i].chore_id = choreId
              /\ chore_assignments[i].user_id = userId}
  IN IF S = {} THEN NULL ELSE Max(S)

\* SELECT * FROM chore_submissions WHERE chore_id = ? AND user_id = ?
\*   ORDER BY submitted_at DESC LIMIT 1         (NULL when no row matches)
LatestSubmission(choreId, userId) ==
  LET S == {i \in DOMAIN chore_submissions :
              /\ chore_submissions[i].chore_id = choreId
              /\ chore_submissions[i].user_id = userId}
  IN IF S = {} THEN NULL ELSE Max(S)

\* ------------------------------------------------------------ POST /chores
\* Request bodies of POST /chores.  Assignment part: no auto_assign, a fixed
\* assignee (of the family, of another family, missing), or a rotation.
AssignPart(auto, assignee, rotation, members) ==
  [auto_assign |-> auto, assigned_to |-> assignee, rotation_type |-> rotation,
   rotation_members |-> members]

AssignParts ==
  {AssignPart(FALSE, NULL, "none", <<>>)}
    \cup {AssignPart(TRUE, u, "none", <<>>) : u \in {NULL, 2, 4}}
    \cup {AssignPart(TRUE, NULL, r, <<2, 3>>) : r \in {"round_robin", "random"}}
    \cup {AssignPart(TRUE, NULL, "round_robin", <<>>)}

CreateBodies ==
  {[title |-> TRUE, reward_amount |-> 1, reward_type |-> rt, requires_photo |-> ph, assign |-> ap] :
     rt \in RewardType, ph \in BOOLEAN, ap \in AssignParts}
    \cup {[title |-> FALSE, reward_amount |-> 1, reward_type |-> "money",
           requires_photo |-> FALSE, assign |-> AssignPart(FALSE, NULL, "none", <<>>)],
          [title |-> TRUE, reward_amount |-> NULL, reward_type |-> "money",
           requires_photo |-> FALSE, assign |-> AssignPart(FALSE, NULL, "none", <<>>)]}

\* The resolution with a round robin that starts at the last member.
initialAssignedToLast(a) ==
  IF ~a.auto_assign THEN {NULL}
  ELSE IF a.rotation_type = "none" /\ a.assigned_to # NULL THEN {a.assigned_to}
  ELSE IF a.rotation_type \in {"round_robin", "random"} /\ Len(a.rotation_members) > 0
       THEN IF a.rotation_type = "round_robin"
            THEN {a.rotation_members[Len(a.rotation_members)]}
            ELSE {a.rotation_members[i] : i \in 1..Len(a.rotation_members)}
       ELSE {NULL}

\* The values initialAssignedTo can take for a request body (random: any member).
initialAssignedTo(a) ==
  IF ~a.auto_assign THEN {NULL}
  ELSE IF a.rotation_type = "none" /\ a.assigned_to # NULL THEN {a.assigned_to}
  ELSE IF a.rotation_type \in {"round_robin", "random"} /\ Len(a.rotation_members) > 0
       THEN IF a.rotation_type = "round_robin"
            THEN {a.rotation_members[1]}
            ELSE {a.rotation_members[i] : i \in 1..Len(a.rotation_members)}
       ELSE {NULL}

\* const status = initialAssignedTo ? 'assigned' : 'available'
InitialStatus(assignee) == IF assignee # NULL THEN "assigned" ELSE "available"

NewChore(family, assignee, rtype, amount, photo, creator, recurringId, due) ==
  [family_id |-> family, status |-> InitialStatus(assignee), assigned_to |-> assignee,
   assigned_at |-> IF assignee # NULL THEN now ELSE NULL,
   reward_type |-> rtype, reward_amount |-> amount, current_reward |-> amount,
   requires_photo |-> photo, created_by |-> creator,
   recurring_id |-> recurringId, due_date |-> due]

NewAssignment(choreId, userId, assignedBy) ==
  [chore_id |-> choreId, user_id |-> userId, status |-> "pending"]

CreateCode(caller, body) ==
  IF Role(caller) # "parent" THEN 403
  ELSE IF ~body.title \/ body.reward_amount = NULL THEN 400
  ELSE 201

Create(caller, body) ==
  /\ CreateCode(caller, body) = 201
  /\ \E assignee \in initialAssignedTo(body.assign) :
    LET choreId == autoinc.chores
    IN /\ choreId <= MaxChores
       /\ assignee # NULL => autoinc.chore_assignments <= MaxRows
       /\ chores' = Insert(chores, choreId,
                      NewChore(FamilyOf(caller), assignee, body.reward_type,
                               body.reward_amount, body.requires_photo, caller, NULL, NULL))
       /\ chore_assignments' =
            IF assignee # NULL
            THEN Insert(chore_assignments, autoinc.chore_assignments,
                        NewAssignment(choreId, assignee, caller))
            ELSE chore_assignments
       /\ autoinc' = [autoinc EXCEPT !.chores = @ + 1,
                        !.chore_assignments = IF assignee # NULL THEN @ + 1 ELSE @]
       /\ UNCHANGED <<users, chore_submissions, completed_tasks, recurring_chores,
                      recurring_chore_history, now, patched, attempts, procs>>

\* -------------------------------------------------------- PATCH /chores/:id
\* The access check without its comparison of families.
checkChoreAccessAnyFamily(caller, id) ==
  IF id \notin DOMAIN chores THEN 404
  ELSE IF Role(caller) = "child" /\ chores[id].assigned_to # caller
                                 /\ chores[id].created_by # caller THEN 403
  ELSE 0

\* Middleware of GET and PATCH /chores/:id: 0 when the request is let through.
checkChoreAccess(caller, id) ==
  IF id \notin DOMAIN chores THEN 404
  ELSE IF chores[id].family_id # FamilyOf(caller) THEN 403
  ELSE IF Role(caller) = "child" /\ chores[id].assigned_to # caller
                                 /\ chores[id].created_by # caller THEN 403
  ELSE 0

\* The list of updatable columns with current_reward added to it.
allowedFieldsWithCurrentReward ==
  {"title", "description", "reward_amount", "reward_type", "requires_photo",
   "acceptance_timer", "status", "current_reward"}

allowedFields == {"title", "description", "reward_amount", "reward_type",
                  "requires_photo", "acceptance_timer", "status"}

\* Request bodies of PATCH: no key, or one key (allowed or not) with a value.
UpdateBodies ==
  {[k \in {} |-> NULL]}
    \cup {[k \in {"status"} |-> v] : v \in ChoreStatus}
    \cup {[k \in {"reward_amount"} |-> v] : v \in RewardAmounts}
    \cup {[k \in {"reward_type"} |-> v] : v \in RewardType}
    \cup {[k \in {"requires_photo"} |-> v] : v \in BOOLEAN}
    \cup {[k \in {"title"} |-> v] : v \in {TRUE}}
    \cup {[k \in {"current_reward"} |-> v] : v \in {2}}
    \cup {[k \in {"assigned_to"} |-> v] : v \in {NULL}}

\* Object.keys(req.body).forEach(key => allowedFields.includes(key) ...)
FilterAllowed(body) == [k \in DOMAIN body \cap allowedFields |-> body[k]]

\* UPDATE chores SET <key> = ? for every key of updates (columns not modelled,
\* such as title, leave the modelled row as it is).
SetFields(row, updates) ==
  [row EXCEPT
     !.status = IF "status" \in DOMAIN updates THEN updates["status"] ELSE @,
     !.reward_amount = IF "reward_amount" \in DOMAIN updates THEN updates["reward_amount"] ELSE @,
     !.reward_type = IF "reward_type" \in DOMAIN updates THEN updates["reward_type"] ELSE @,
     !.requires_photo = IF "requires_photo" \in DOMAIN updates THEN updates["requires_photo"] ELSE @,
     !.current_reward = IF "current_reward" \in DOMAIN updates THEN updates["current_reward"] ELSE @,
     !.assigned_to = IF "assigned_to" \in DOMAIN updates THEN updates["assigned_to"] ELSE @]

\* GET /chores/:id: the chore is sent when the middleware lets the request through.
GetChoreCode(caller, id) ==
  IF checkChoreAccess(caller, id) # 0 THEN checkChoreAccess(caller, id) ELSE 200

UpdateCode(caller, id, body) ==
  IF checkChoreAccess(caller, id) # 0 THEN checkChoreAccess(caller, id)
  ELSE IF Role(caller) # "parent" /\ chores[id].created_by # caller THEN 403
  ELSE IF DOMAIN FilterAllowed(body) = {} THEN 400
  ELSE 200

Update(caller, id, body) ==
  /\ UpdateCode(caller, id, body) = 200
  /\ patched < MaxPatches
  /\ chores' = [chores EXCEPT ![id] = SetFields(@, FilterAllowed(body))]
  /\ patched' = patched + 1
  /\ UNCHANGED attempts
  /\ UNCHANGED <<users, chore_assignments, chore_submissions, completed_tasks,
                 recurring_chores, recurring_chore_history, autoinc, now, procs>>

\* -------------------------------------------------- POST /chores/:id/assign
\* The assign handler without its role check.
AssignCodeAnyRole(caller, id, userId) ==
  IF userId = NULL THEN 400
  ELSE IF ~(id \in DOMAIN chores /\ chores[id].family_id = FamilyOf(caller)) THEN 404
  ELSE IF ~(userId \in UserIds /\ FamilyOf(userId) = FamilyOf(caller)) THEN 404
  ELSE 200

AssignCode(caller, id, userId) ==
  IF Role(caller) # "parent" THEN 403
  ELSE IF userId = NULL THEN 400
  ELSE IF ~(id \in DOMAIN chores /\ chores[id].family_id = FamilyOf(caller)) THEN 404
  ELSE IF ~(userId \in UserIds /\ FamilyOf(userId) = FamilyOf(caller)) THEN 404
  ELSE 200

Assign(caller, id, userId) ==
  /\ AssignCode(caller, id, userId) = 200
  /\ autoinc.chore_assignments <= MaxRows
  /\ chore_assignments' = Insert(chore_assignments, autoinc.chore_assignments,
                                 NewAssignment(id, userId, caller))
  /\ chores' = [chores EXCEPT ![id].assigned_to = userId,
                              ![id].assigned_at = now,
                              ![id].status = "pending_acceptance"]
  /\ autoinc' = [autoinc EXCEPT !.chore_assignments = @ + 1]
  /\ UNCHANGED <<users, chore_submissions, completed_tasks, recurring_chores,
                 recurring_chore_history, now, patched, attempts, procs>>

\* ------------------------------------------- POST /chores/:id/accept|decline
\* UPDATE chore_assignments SET status = ? WHERE chore_id = ? AND user_id = ?
\*   AND status = 'pending'
AnswerAssignments(choreId, userId, status) ==
  [i \in DOMAIN chore_assignments |->
     IF /\ chore_assignments[i].chore_id = choreId
        /\ chore_assignments[i].user_id = userId
        /\ chore_assignments[i].status = "pending"
     THEN [chore_assignments[i] EXCEPT !.status = status]
     ELSE chore_assignments[i]]

\* SELECT * FROM chores WHERE id = ? AND assigned_to = ? AND status = ?
AssignedInStatus(caller, id, status) ==
  /\ id \in DOMAIN chores
  /\ chores[id].assigned_to = caller
  /\ chores[id].status = status

\* The accept handler with a guard query that leaves out assigned_to = ?.
AcceptCodeAnyCaller(caller, id) ==
  IF ~(id \in DOMAIN chores /\ chores[id].status = "pending_acceptance") THEN 404 ELSE 200

AcceptCode(caller, id) ==
  IF ~AssignedInStatus(caller, id, "pending_acceptance") THEN 404 ELSE 200

Accept(caller, id) ==
  /\ AcceptCode(caller, id) = 200
  /\ chore_assignments' = AnswerAssignments(id, caller, "accepted")
  /\ chores' = [chores EXCEPT ![id].status = "in_progress"]
  /\ UNCHANGED <<users, chore_submissions, completed_tasks, recurring_chores,
                 recurring_chore_history, autoinc, now, patched, attempts, procs>>

DeclineCode(caller, id) ==
  IF ~AssignedInStatus(caller, id, "pending_acceptance") THEN 404 ELSE 200

Decline(caller, id) ==
  /\ DeclineCode(caller, id) = 200
  /\ chore_assignments' = AnswerAssignments(id, caller, "declined")
  /\ chores' = [chores EXCEPT ![id].status = "available", ![id].assigned_to = NULL,
                              ![id].assigned_at = NULL]
  /\ UNCHANGED <<users, chore_submissions, completed_tasks, recurring_chores,
                 recurring_chore_history, autoinc, now, patched, attempts, procs>>

\* -------------------------------------------------- POST /chores/:id/submit
\* The submit handler without the photo check.
SubmitCodeNoPhotoCheck(caller, id, photo) ==
  IF ~AssignedInStatus(caller, id, "in_progress") THEN 404 ELSE 201

SubmitCode(caller, id, photo) ==
  IF ~AssignedInStatus(caller, id, "in_progress") THEN 404
  ELSE IF chores[id].requires_photo /\ ~photo THEN 400
  ELSE 201

Submit(caller, id, photo) ==
  /\ SubmitCode(caller, id, photo) = 201
  /\ autoinc.chore_submissions <= MaxRows
  /\ chore_submissions' =
       Insert(chore_submissions, autoinc.chore_submissions,
              [chore_id |-> id, user_id |-> caller,
               assignment_id |-> LatestAssignment(id, caller), status |-> "pending"])
  /\ chores' = [chores EXCEPT ![id].status = "pending_approval"]
  /\ autoinc' = [autoinc EXCEPT !.chore_submissions = @ + 1]
  /\ UNCHANGED <<users, chore_assignments, completed_tasks, recurring_chores,
                 recurring_chore_history, now, patched, attempts, procs>>


\* ------------------------------------------- POST /chores/:id/approve|reject
\* The approval handler without the status condition of its guard query.
ApproveGuardAnyStatus(caller, id) ==
  /\ id \in DOMAIN chores
  /\ chores[id].assigned_to \in UserIds
  /\ chores[id].family_id = FamilyOf(caller)

\* SELECT c.* FROM chores c JOIN users u ON c.assigned_to = u.id
\*   WHERE c.id = ? AND c.family_id = ? AND c.status = 'pending_approval'
ApproveGuard(caller, id) ==
  /\ id \in DOMAIN chores
  /\ chores[id].assigned_to \in UserIds
  /\ chores[id].family_id = FamilyOf(caller)
  /\ chores[id].status = "pending_approval"

\* UPDATE users SET earnings = earnings + ? / screen_time_earned = screen_time_earned + ?
Credit(balances, userId, rewardType, amount) ==
  IF rewardType = "money"
  THEN [balances EXCEPT ![userId].earnings = @ + amount]
  ELSE IF rewardType = "screen_time"
  THEN [balances EXCEPT ![userId].screen_time_earned = @ + amount]
  ELSE balances

\* The four writes of the approval transaction, from the rows the handler read:
\* chore is the chore row and submission the id of the latest submission.
ApproveWrites(caller, id, chore, submission) ==
  /\ autoinc.completed_tasks <= MaxRows
  /\ chore_submissions' =
       IF submission \in DOMAIN chore_submissions
       THEN [chore_submissions EXCEPT ![submission].status = "approved"]
       ELSE chore_submissions
  /\ completed_tasks' =
       Insert(completed_tasks, autoinc.completed_tasks,
              [chore_id |-> id, user_id |-> chore.assigned_to, submission_id |-> submission,
               reward_type |-> chore.reward_type, reward_earned |-> chore.current_reward])
  /\ users' = Credit(users, chore.assigned_to, chore.reward_type, chore.current_reward)
  /\ chores' = [chores EXCEPT ![id].status = "completed"]
  /\ autoinc' = [autoinc EXCEPT !.completed_tasks = @ + 1]

ApproveCode(caller, id) ==
  IF Role(caller) # "parent" THEN 403
  ELSE IF ~ApproveGuard(caller, id) THEN 404
  ELSE IF LatestSubmission(id, chores[id].assigned_to) = NULL THEN 404
  ELSE 200

Approve(caller, id) ==
  /\ ApproveCode(caller, id) = 200
  /\ ApproveWrites(caller, id, chores[id], LatestSubmission(id, chores[id].assigned_to))
  /\ UNCHANGED <<chore_assignments, recurring_chores, recurring_chore_history,
                 now, patched, attempts, procs>>

\* SELECT * FROM chores WHERE id = ? AND family_id = ? AND status = 'pending_approval'
RejectGuard(caller, id) ==
  /\ id \in DOMAIN chores
  /\ chores[id].family_id = FamilyOf(caller)
  /\ chores[id].status = "pending_approval"

RejectCode(caller, id) ==
  IF Role(caller) # "parent" THEN 403
  ELSE IF ~RejectGuard(caller, id) THEN 404
  ELSE IF LatestSubmission(id, chores[id].assigned_to) = NULL THEN 404
  ELSE 200

\* The reject handler with a chore update that sends the chore back to available.
RejectToAvailable(caller, id) ==
  /\ RejectCode(caller, id) = 200
  /\ chore_submissions' =
       [chore_submissions EXCEPT ![LatestSubmission(id, chores[id].assigned_to)].status = "rejected"]
  /\ chores' = [chores EXCEPT ![id].status = "available", ![id].assigned_to = NULL]
  /\ UNCHANGED <<users, chore_assignments, completed_tasks, recurring_chores,
                 recurring_chore_history, autoinc, now, patched, attempts, procs>>

Reject(caller, id) ==
  /\ RejectCode(caller, id) = 200
  /\ chore_submissions' =
       [chore_submissions EXCEPT ![LatestSubmission(id, chores[id].assigned_to)].status = "rejected"]
  /\ chores' = [chores EXCEPT ![id].status = "in_progress"]
  /\ UNCHANGED <<users, chore_assignments, completed_tasks, recurring_chores,
                 recurring_chore_history, autoinc, now, patched, attempts, procs>>

\* ------------------------------------------------------ DELETE /chores/:id
\* The rows of a dependent table that survive ON DELETE CASCADE of chore_id.
CascadeChore(table, id) == [i \in {j \in DOMAIN table : table[j].chore_id # id} |-> table[i]]

\* DELETE FROM chores WHERE id = ?, with the cascades of chore_assignments,
\* chore_submissions, completed_tasks and recurring_chore_history.
DeleteChoreRow(id) ==
  /\ chores' = [i \in DOMAIN chores \ {id} |-> chores[i]]
  /\ chore_assignments' = CascadeChore(chore_assignments, id)
  /\ chore_submissions' = CascadeChore(chore_submissions, id)
  /\ completed_tasks' = CascadeChore(completed_tasks, id)
  /\ recurring_chore_history' = CascadeChore(recurring_chore_history, id)

\* The delete handler without its check of the completed status.
DeleteCodeAnyStatus(caller, id) ==
  IF Role(caller) # "parent" THEN 403
  ELSE IF ~(id \in DOMAIN chores /\ chores[id].family_id = FamilyOf(caller)) THEN 404
  ELSE 200

DeleteCode(caller, id) ==
  IF Role(caller) # "parent" THEN 403
  ELSE IF ~(id \in DOMAIN chores /\ chores[id].family_id = FamilyOf(caller)) THEN 404
  ELSE IF chores[id].status = "completed" THEN 400
  ELSE 200

Delete(caller, id) ==
  /\ DeleteCode(caller, id) = 200
  /\ DeleteChoreRow(id)
  /\ UNCHANGED <<users, recurring_chores, autoinc, now, patched, attempts, procs>>

\* ------------------------------------------------------- recurring: dates
\* DATE(ts): the calendar day of a timestamp.
DATE(ts) == ts \div 24

\* new Date(start_date) followed by setHours(9, 0, 0, 0)
AtDueHour(day) == day * 24 + DueHour

\* Date.getDay(): 0 is Sunday; day 0 of the model is Sunday 30 January 2022.
getDay(ts) == DATE(ts) % 7

\* The calendar of 2022: the lengths of its months, and the day of the year
\* (1 for 1 January) of a timestamp.
MonthLengths == <<31, 28, 31, 30, 31, 30, 31, 31, 30, 31, 30, 31>>

DayOfYear(ts) == DATE(ts) + 30

RECURSIVE DaysBefore(_)
\* The number of days of the year before month m (0 is January).
DaysBefore(m) == IF m = 0 THEN 0 ELSE DaysBefore(m - 1) + MonthLengths[m]

\* Date.getMonth(): 0 is January.
getMonth(ts) == CHOOSE m \in 0..11 : DaysBefore(m) < DayOfYear(ts) /\ DayOfYear(ts) <= DaysBefore(m + 1)

\* Date.getDate(): the day of the month.
getDate(ts) == DayOfYear(ts) - DaysBefore(getMonth(ts))

\* A date from its month (0 is January), day of the month and hours since
\* midnight; a day past the end of the month runs on into the next months,
\* as setMonth and setDate do.
MakeDate(month, day, hours) == (DaysBefore(month) + day - 30) * 24 + hours

\* nextDueDate.setMonth(nextDueDate.getMonth() + 1)
AddMonth(ts) == MakeDate(getMonth(ts) + 1, getDate(ts), ts % 24)

daysOfWeek == <<"sunday", "monday", "tuesday", "wednesday", "thursday", "friday", "saturday">>

\* daysOfWeek.indexOf(name): the 0-based index, -1 when name is no weekday.
DayIndex(name) ==
  IF \E i \in 1..Len(daysOfWeek) : daysOfWeek[i] = name
  THEN (CHOOSE i \in 1..Len(daysOfWeek) : daysOfWeek[i] = name) - 1
  ELSE -1

\* The next due date computed by POST and PUT /recurring from start_date:
\* 09:00 of start_date, moved to the next occurrence when that is in the past.
FirstDueDate(start_date, frequency, day_of_week, t) ==
  LET nextDueDate == AtDueHour(start_date)
  IN IF ~(nextDueDate < t) THEN nextDueDate
     ELSE CASE frequency = "daily" -> nextDueDate + 24
            [] frequency = "weekly" ->
                 IF day_of_week # "" /\ DayIndex(day_of_week) # -1
                 THEN nextDueDate + 24 * ((DayIndex(day_of_week) + 7 - getDay(nextDueDate)) % 7)
                 ELSE nextDueDate + 24 * 7
            [] frequency = "monthly" -> AddMonth(nextDueDate)
            [] frequency = "custom" -> nextDueDate + 24
            [] OTHER -> nextDueDate

\* The next due date after a generation: the plain period step.
AdvanceDueDate(next_due_date, frequency) ==
  CASE frequency = "daily" -> next_due_date + 24
    [] frequency = "weekly" -> next_due_date + 24 * 7
    [] frequency = "monthly" -> AddMonth(next_due_date)
    [] frequency = "custom" -> next_due_date + 24 * 7
    [] OTHER -> next_due_date

\* ------------------------------------------------- POST and PUT /recurring
\* tinyint(1) columns: auto_assign ? 1 : 0
Flag(b) == IF b THEN 1 ELSE 0

StartDates == {0, 1}

TemplateAssignParts ==
  {AssignPart(FALSE, NULL, "none", <<>>), AssignPart(TRUE, 2, "none", <<>>),
   AssignPart(TRUE, NULL, "round_robin", <<2, 3>>)}

RecurringBodies ==
  [title : BOOLEAN, frequency : {"daily", "weekly"}, day_of_week : {"", "monday"},
   start_date : StartDates, end_date : {NULL}, assign : TemplateAssignParts]

CreateRecurringCode(caller, body) ==
  IF Role(caller) # "parent" THEN 403
  ELSE IF ~body.title THEN 400
  ELSE 201

\* INSERT INTO recurring_chores ...: the row stored for a request body at time t.
NewTemplate(caller, body, t) ==
  [family_id |-> FamilyOf(caller), is_active |-> 1,
   frequency |-> body.frequency, day_of_week |-> body.day_of_week,
   start_date |-> body.start_date, end_date |-> body.end_date,
   next_due_date |-> FirstDueDate(body.start_date, body.frequency, body.day_of_week, t),
   last_generated |-> NULL,
   auto_assign |-> Flag(body.assign.auto_assign),
   assigned_to |-> body.assign.assigned_to,
   rotation_type |-> body.assign.rotation_type,
   rotation_members |-> body.assign.rotation_members,
   created_by |-> caller]

CreateRecurring(caller, body) ==
  /\ CreateRecurringCode(caller, body) = 201
  /\ autoinc.recurring_chores <= MaxTemplates
  /\ recurring_chores' =
       Insert(recurring_chores, autoinc.recurring_chores, NewTemplate(caller, body, now))
  /\ autoinc' = [autoinc EXCEPT !.recurring_chores = @ + 1]
  /\ UNCHANGED <<users, chores, chore_assignments, chore_submissions, completed_tasks,
                 recurring_chore_history, now, patched, attempts, procs>>

\* Request bodies of PUT /recurring/:id.  Every key is present (mysql2 rejects an
\* undefined bind parameter); Absent and "" stand for JSON null, and for a
\* missing key of is_active.
Absent == -1

UpdateRecurringBodies ==
  [start_date : StartDates \cup {Absent}, frequency : {""}, day_of_week : {""},
   end_date : {NULL}, is_active : {Absent, 0, 1}, assign : TemplateAssignParts]

UpdateRecurringCode(caller, id) ==
  IF Role(caller) # "parent" THEN 403
  ELSE IF ~(id \in DOMAIN recurring_chores
            /\ recurring_chores[id].family_id = FamilyOf(caller)) THEN 404
  ELSE 200

\* COALESCE(?, column)
Coalesce(value, none, column) == IF value = none THEN column ELSE value

UpdateRecurring(caller, id, body) ==
  LET existingChore == recurring_chores[id]
      recompute == body.frequency # "" \/ body.day_of_week # "" \/ body.start_date # Absent
      nextDueDate ==
        IF recompute
        THEN FirstDueDate(Coalesce(body.start_date, Absent, existingChore.start_date),
                          Coalesce(body.frequency, "", existingChore.frequency),
                          Coalesce(body.day_of_week, "", existingChore.day_of_week), now)
        ELSE existingChore.next_due_date
  IN /\ UpdateRecurringCode(caller, id) = 200
     /\ recurring_chores' =
          [recurring_chores EXCEPT ![id] =
             [@ EXCEPT !.frequency = Coalesce(body.frequency, "", @),
                       !.day_of_week = Coalesce(body.day_of_week, "", @),
                       !.start_date = Coalesce(body.start_date, Absent, @),
                       !.end_date = body.end_date,
                       !.next_due_date = nextDueDate,
                       !.is_active = Coalesce(body.is_active, Absent, @),
                       !.auto_assign = Flag(body.assign.auto_assign),
                       !.assigned_to = body.assign.assigned_to,
                       !.rotation_type = body.assign.rotation_type,
                       !.rotation_members = body.assign.rotation_members]]
     /\ UNCHANGED <<users, chores, chore_assignments, chore_submissions, completed_tasks,
                    recurring_chore_history, autoinc, now, patched, attempts, procs>>

\* ------------------------------------------------- DELETE /recurring/:id
DeleteRecurringCode(caller, id) ==
  IF Role(caller) # "parent" THEN 403
  ELSE IF ~(id \in DOMAIN recurring_chores /\ recurring_chores[id].family_id = FamilyOf(caller))
  THEN 404
  ELSE 200

\* DELETE FROM recurring_chores WHERE id = ?, with the cascade of
\* recurring_chore_history on recurring_id.
DeleteRecurring(caller, id) ==
  /\ DeleteRecurringCode(caller, id) = 200
  /\ recurring_chores' = [i \in DOMAIN recurring_chores \ {id} |-> recurring_chores[i]]
  /\ recurring_chore_history' =
       [i \in {j \in DOMAIN recurring_chore_history :
                 recurring_chore_history[j].recurring_id # id} |-> recurring_chore_history[i]]
  /\ UNCHANGED <<users, chores, chore_assignments, chore_submissions, completed_tasks,
                 autoinc, now, patched, attempts, procs>>

\* ---------------------------------------------------- recurring: generation
\* The tables generation reads and writes, as one value.
Tables ==
  [chores |-> chores, chore_assignments |-> chore_assignments,
   recurring_chores |-> recurring_chores,
   recurring_chore_history |-> recurring_chore_history, autoinc |-> autoinc]

\* ... WHERE is_active = 1 AND next_due_date <= <end of today>
\*     AND (end_date IS NULL OR end_date >= CURDATE())
IsDue(rc, t) ==
  /\ rc.is_active = 1
  /\ rc.next_due_date < (DATE(t) + 1) * 24
  /\ (rc.end_date = NULL \/ rc.end_date >= DATE(t))

\* Generation without the history guard: no row is ever found.
existingHistoryIgnored(history, recurringId, next_due_date) == FALSE

\* SELECT * FROM recurring_chore_history WHERE recurring_id = ?
\*   AND DATE(due_date) = DATE(?)
existingHistory(history, recurringId, next_due_date) ==
  \E h \in DOMAIN history :
     /\ history[h].recurring_id = recurringId
     /\ DATE(history[h].due_date) = DATE(next_due_date)

\* SELECT * FROM recurring_chore_history WHERE recurring_id = ?
\*   ORDER BY due_date DESC LIMIT 1        (the row id, NULL when there is none)
lastHistory(history, recurringId) ==
  LET S == {h \in DOMAIN history : history[h].recurring_id = recurringId}
      latest == {h \in S : \A k \in S : history[k].due_date <= history[h].due_date}
  IN IF S = {} THEN NULL ELSE Max(latest)

\* members.indexOf(x): the 0-based index of the first occurrence, -1 when absent.
indexOf(members, x) ==
  IF \E i \in 1..Len(members) : members[i] = x
  THEN (CHOOSE i \in 1..Len(members) :
          members[i] = x /\ \A j \in 1..(i - 1) : members[j] # x) - 1
  ELSE -1

\* Round robin that repeats the last assignee instead of moving to the next.
assignedToRepeated(history, recurringId, rc, pick) ==
  IF rc.auto_assign # 1 THEN NULL
  ELSE IF rc.rotation_type = "none" /\ rc.assigned_to # NULL THEN rc.assigned_to
  ELSE IF rc.rotation_type = "round_robin" /\ Len(rc.rotation_members) > 0
  THEN LET members == rc.rotation_members
           last == lastHistory(history, recurringId)
       IN IF last # NULL /\ history[last].assigned_to # NULL
          THEN members[(indexOf(members, history[last].assigned_to) % Len(members)) + 1]
          ELSE members[1]
  ELSE IF rc.rotation_type = "random" /\ Len(rc.rotation_members) > 0
  THEN rc.rotation_members[(pick % Len(rc.rotation_members)) + 1]
  ELSE NULL

\* The assignee of the chore generated for template row rc; pick is the value
\* of Math.floor(Math.random() * members.length).
assignedTo(history, recurringId, rc, pick) ==
  IF rc.auto_assign # 1 THEN NULL
  ELSE IF rc.rotation_type = "none" /\ rc.assigned_to # NULL THEN rc.assigned_to
  ELSE IF rc.rotation_type = "round_robin" /\ Len(rc.rotation_members) > 0
  THEN LET members == rc.rotation_members
           last == lastHistory(history, recurringId)
       IN IF last # NULL /\ history[last].assigned_to # NULL
          THEN members[((indexOf(members, history[last].assigned_to) + 1) % Len(members)) + 1]
          ELSE members[1]
  ELSE IF rc.rotation_type = "random" /\ Len(rc.rotation_members) > 0
  THEN rc.rotation_members[(pick % Len(rc.rotation_members)) + 1]
  ELSE NULL

\* INSERT INTO chores ... for template row rc (the new id is g.autoinc.chores)
InsertGeneratedChore(g, recurringId, rc, creator, assignee) ==
  [g EXCEPT !.chores = Insert(@, g.autoinc.chores,
                              NewChore(rc.family_id, assignee, "money", 1, FALSE, creator,
                                       recurringId, rc.next_due_date)),
            !.autoinc.chores = @ + 1]

\* if (assignedTo) INSERT INTO chore_assignments ...
InsertGeneratedAssignment(g, choreId, assignee) ==
  IF assignee = NULL THEN g
  ELSE [g EXCEPT !.chore_assignments = Insert(@, g.autoinc.chore_assignments,
                                               NewAssignment(choreId, assignee, NULL)),
                 !.autoinc.chore_assignments = @ + 1]

\* INSERT INTO recurring_chore_history ...
InsertHistory(g, recurringId, rc, choreId, assignee) ==
  [g EXCEPT !.recurring_chore_history =
              Insert(@, g.autoinc.recurring_chore_history,
                     [recurring_id |-> recurringId, chore_id |-> choreId,
                      due_date |-> rc.next_due_date, assigned_to |-> assignee]),
            !.autoinc.recurring_chore_history = @ + 1]

\* UPDATE recurring_chores SET next_due_date = ?, last_generated = NOW() WHERE id = ?
AdvanceTemplate(g, recurringId, rc, t) ==
  IF recurringId \notin DOMAIN g.recurring_chores THEN g
  ELSE [g EXCEPT !.recurring_chores[recurringId].next_due_date =
                   AdvanceDueDate(rc.next_due_date, rc.frequency),
                 !.recurring_chores[recurringId].last_generated = t]

\* One pass of the loop body for template row rc read at selection time.
GenerateOne(g, recurringId, rc, creator, pick, t) ==
  IF existingHistory(g.recurring_chore_history, recurringId, rc.next_due_date) THEN g
  ELSE LET assignee == assignedTo(g.recurring_chore_history, recurringId, rc, pick)
           choreId == g.autoinc.chores
           g1 == InsertGeneratedChore(g, recurringId, rc, creator, assignee)
           g2 == InsertGeneratedAssignment(g1, choreId, assignee)
           g3 == InsertHistory(g2, recurringId, rc, choreId, assignee)
       IN AdvanceTemplate(g3, recurringId, rc, t)

\* for (const recurringChore of recurringChores): the selected template rows in
\* id order; creator is NULL for the scheduled job, which uses created_by.
RECURSIVE GenerateAll(_, _, _, _, _, _)
GenerateAll(g, ids, rows, creator, pick, t) ==
  IF ids = {} THEN g
  ELSE LET id == CHOOSE i \in ids : \A j \in ids : i <= j
           by == IF creator = NULL THEN rows[id].created_by ELSE creator
       IN GenerateAll(GenerateOne(g, id, rows[id], by, pick, t),
                      ids \ {id}, rows, creator, pick, t)

WithinBounds(g) ==
  /\ g.autoinc.recurring_chore_history <= MaxGenerated + 1
  /\ g.autoinc.chore_assignments <= MaxRows + 1

StoreTables(g) ==
  /\ chores' = g.chores
  /\ chore_assignments' = g.chore_assignments
  /\ recurring_chores' = g.recurring_chores
  /\ recurring_chore_history' = g.recurring_chore_history
  /\ autoinc' = g.autoinc

\* POST /recurring/generate: the templates the request selects.
SelectManual(caller, recurringId) ==
  IF recurringId # NULL
  THEN {id \in DOMAIN recurring_chores :
          /\ id = recurringId
          /\ recurring_chores[id].family_id = FamilyOf(caller)
          /\ recurring_chores[id].is_active = 1}
  ELSE {id \in DOMAIN recurring_chores :
          /\ recurring_chores[id].family_id = FamilyOf(caller)
          /\ IsDue(recurring_chores[id], now)}

GenerateCode(caller) == IF Role(caller) # "parent" THEN 403 ELSE 200

Generate(caller, recurringId, pick) ==
  LET g == GenerateAll(Tables, SelectManual(caller, recurringId), recurring_chores,
                       caller, pick, now)
  IN /\ GenerateCode(caller) = 200
     /\ WithinBounds(g)
     /\ StoreTables(g)
     /\ UNCHANGED <<users, chore_submissions, completed_tasks, now, patched, attempts, procs>>

\* The job's selection without the due-date and end-date conditions.
SelectScheduledActive == {id \in DOMAIN recurring_chores : recurring_chores[id].is_active = 1}

\* generateRecurringChores(), run by cron at 06:00: every due template.
SelectScheduled == {id \in DOMAIN recurring_chores : IsDue(recurring_chores[id], now)}

ScheduledJob(pick) ==
  LET g == GenerateAll(Tables, SelectScheduled, recurring_chores, NULL, pick, now)
  IN /\ now % 24 = CronHour
     /\ WithinBounds(g)
     /\ StoreTables(g)
     /\ UNCHANGED <<users, chore_submissions, completed_tasks, now, patched, attempts, procs>>

\* The clock moves on by half a day: 06:00, 18:00, 06:00, ...
Tick ==
  /\ now + 12 < (MaxDay + 1) * 24
  /\ now' = now + 12
  /\ UNCHANGED <<db, patched, attempts, procs>>

\* ----------------------------------------------------------- POST /login
\* new Date() in minutes; locked_until is stored in minutes.
Minutes(t) == t * 60

\* user.locked_until && new Date() < new Date(user.locked_until)
IsLocked(user, t) == user.locked_until # NULL /\ Minutes(t) < user.locked_until

\* The login handler with the password verified before the lock is looked at.
LoginCodePasswordFirst(u, isPasswordCorrect) ==
  IF u \notin DOMAIN users THEN 401
  ELSE IF isPasswordCorrect THEN 200
  ELSE IF IsLocked(users[u], now) THEN 423
  ELSE 401

\* The response for the account u the request names (NULL: no row matches
\* family code and email) and the outcome of bcrypt.compare.
LoginCode(u, isPasswordCorrect) ==
  IF u \notin DOMAIN users THEN 401
  ELSE IF IsLocked(users[u], now) THEN 423
  ELSE IF ~isPasswordCorrect THEN 401
  ELSE 200

\* A lockout that starts with the third failed attempt.
lockUntilAfterThree(newAttempts, t) ==
  IF newAttempts >= 3 THEN Minutes(t) + LockMinutes ELSE NULL

\* newAttempts >= 5 ? new Date(Date.now() + 15 * 60 * 1000) : null
lockUntil(newAttempts, t) ==
  IF newAttempts >= LockThreshold THEN Minutes(t) + LockMinutes ELSE NULL

\* The handler's UPDATE users: after a mismatch, after a successful login.
Login(u, isPasswordCorrect) ==
  LET code == LoginCode(u, isPasswordCorrect)
      newAttempts == users[u].login_attempts + 1
  IN /\ code \in {200, 401}
     /\ u \in DOMAIN users
     /\ code = 401 => newAttempts <= MaxAttempts
     /\ users' = IF code = 401
                 THEN [users EXCEPT ![u].login_attempts = newAttempts,
                                    ![u].locked_until = lockUntil(newAttempts, now)]
                 ELSE [users EXCEPT ![u].login_attempts = 0, ![u].locked_until = NULL]
     /\ UNCHANGED <<chores, chore_assignments, chore_submissions, completed_tasks,
                    recurring_chores, recurring_chore_history, autoinc, now, patched, attempts, procs>>

\* ------------------------------------------------------------ specification
EmptyTable == [i \in {} |-> NULL]

Init ==
  /\ users = [u \in UserIds |-> [earnings |-> 0, screen_time_earned |-> 0,
                                 login_attempts |-> 0, locked_until |-> NULL,
                                 role |-> InitialRole(u)]]
  /\ chores = EmptyTable
  /\ chore_assignments = EmptyTable
  /\ chore_submissions = EmptyTable
  /\ completed_tasks = EmptyTable
  /\ recurring_chores = EmptyTable
  /\ recurring_chore_history = EmptyTable
  /\ autoinc = [chores |-> 1, chore_assignments |-> 1, chore_submissions |-> 1,
                completed_tasks |-> 1, recurring_chores |-> 1,
                recurring_chore_history |-> 1]
  /\ now = 24 + CronHour
  /\ patched = 0
  /\ attempts = [i \in {} |-> NULL]
  /\ procs = EmptyTable

\* A request that is answered with an error writes nothing and is not a step:
\* the requests enumerated are those naming an existing chore.
ChoreIds == DOMAIN chores

Next ==
  \/ \E caller \in UserIds, body \in CreateBodies : Create(caller, body)
  \/ \E caller \in UserIds, id \in ChoreIds, body \in UpdateBodies : Update(caller, id, body)
  \/ \E caller \in UserIds, id \in ChoreIds, userId \in {2, 3, 4} : Assign(caller, id, userId)
  \/ \E caller \in UserIds, id \in ChoreIds : Accept(caller, id)
  \/ \E caller \in UserIds, id \in ChoreIds : Decline(caller, id)
  \/ \E caller \in UserIds, id \in ChoreIds, photo \in BOOLEAN : Submit(caller, id, photo)
  \/ \E caller \in UserIds, id \in ChoreIds : Approve(caller, id)
  \/ \E caller \in UserIds, id \in ChoreIds : Reject(caller, id)
  \/ \E caller \in UserIds, id \in ChoreIds : Delete(caller, id)

Spec == Init /\ [][Next]_vars

\* The recurring template engine, with the deletion of generated chores.
TemplateIds == DOMAIN recurring_chores

NextRecurring ==
  \/ \E caller \in UserIds, body \in RecurringBodies : CreateRecurring(caller, body)
  \/ \E caller \in UserIds, id \in TemplateIds, body \in UpdateRecurringBodies :
        UpdateRecurring(caller, id, body)
  \/ \E caller \in UserIds, id \in TemplateIds : DeleteRecurring(caller, id)
  \/ \E caller \in UserIds, id \in TemplateIds \cup {NULL}, pick \in {0, 1} :
        Generate(caller, id, pick)
  \/ \E pick \in {0, 1} : ScheduledJob(pick)
  \/ \E caller \in UserIds, id \in ChoreIds : Delete(caller, id)
  \/ Tick

SpecRecurring == Init /\ [][NextRecurring]_vars


\* ---------------------------------------------------- requests in flight
\* procs holds the requests that have read and not yet finished: the handlers
\* await each query, so other requests run between two queries of one request.
FreeProc == CHOOSE p \in 1..MaxProcs : p \notin DOMAIN procs

Start(proc) == Insert(procs, FreeProc, proc)

Finish(p) == [q \in DOMAIN procs \ {p} |-> procs[q]]

\* POST /chores/:id/approve, first query: the chore row, or 404.
ApproveSelectChore(caller, id) ==
  /\ DOMAIN procs # 1..MaxProcs
  /\ Role(caller) = "parent"
  /\ ApproveGuard(caller, id)
  /\ procs' = Start([op |-> "approve", pc |-> "submission", caller |-> caller, id |-> id,
                     chore |-> chores[id], submission |-> NULL])
  /\ UNCHANGED <<db, now, patched, attempts>>

\* second query: the latest submission of chore.assigned_to, or 404.
ApproveSelectSubmission(p) ==
  LET r == procs[p]
      submission == LatestSubmission(r.id, r.chore.assigned_to)
  IN /\ r.op = "approve" /\ r.pc = "submission"
     /\ procs' = IF submission = NULL THEN Finish(p)
                 ELSE [procs EXCEPT ![p].pc = "transaction", ![p].submission = submission]
     /\ UNCHANGED <<db, now, patched, attempts>>

\* db.transaction(...): the four writes, from the rows read before it began.
ApproveTransaction(p) ==
  LET r == procs[p]
  IN /\ r.op = "approve" /\ r.pc = "transaction"
     /\ ApproveWrites(r.caller, r.id, r.chore, r.submission)
     /\ procs' = Finish(p)
     /\ UNCHANGED <<chore_assignments, recurring_chores, recurring_chore_history,
                    now, patched, attempts>>

\* Generation, one query at a time.  queue holds the selected template ids
\* still to process, rows the template rows as selected; creator is NULL for
\* the scheduled job.
StartGeneration(ids, creator) ==
  /\ DOMAIN procs # 1..MaxProcs
  /\ ids # {}
  /\ procs' = Start([op |-> "generate", pc |-> "history", queue |-> ids,
                     rows |-> recurring_chores, creator |-> creator,
                     assignee |-> NULL, chore_id |-> NULL])
  /\ UNCHANGED <<db, now, patched, attempts>>

GenerateSelect(caller, recurringId) ==
  /\ GenerateCode(caller) = 200
  /\ StartGeneration(SelectManual(caller, recurringId), caller)

ScheduledSelect ==
  /\ now % 24 = CronHour
  /\ StartGeneration(SelectScheduled, NULL)

\* The template the process is working on, and its row as selected.
Current(r) == CHOOSE i \in r.queue : \A j \in r.queue : i <= j

CurrentRow(r) == r.rows[Current(r)]

CreatedBy(r) == IF r.creator = NULL THEN CurrentRow(r).created_by ELSE r.creator

\* Move on to the next selected template, or end the run.
NextTemplate(p) ==
  LET r == procs[p]
      rest == r.queue \ {Current(r)}
  IN IF rest = {} THEN Finish(p)
     ELSE [procs EXCEPT ![p].queue = rest, ![p].pc = "history",
                        ![p].assignee = NULL, ![p].chore_id = NULL]

\* The history guard query: continue when a row exists.
GenerateCheckHistory(p) ==
  LET r == procs[p]
  IN /\ r.op = "generate" /\ r.pc = "history"
     /\ procs' = IF existingHistory(recurring_chore_history, Current(r),
                                    CurrentRow(r).next_due_date)
                 THEN NextTemplate(p)
                 ELSE [procs EXCEPT ![p].pc = "assignee"]
     /\ UNCHANGED <<db, now, patched, attempts>>

\* The assignee, with the last-history query of round robin and the draw of
\* random rotation.
GenerateResolve(p, pick) ==
  LET r == procs[p]
  IN /\ r.op = "generate" /\ r.pc = "assignee"
     /\ procs' = [procs EXCEPT ![p].pc = "chore",
                               ![p].assignee = assignedTo(recurring_chore_history, Current(r),
                                                          CurrentRow(r), pick)]
     /\ UNCHANGED <<db, now, patched, attempts>>

GenerateInsertChore(p) ==
  LET r == procs[p]
      g == InsertGeneratedChore(Tables, Current(r), CurrentRow(r), CreatedBy(r), r.assignee)
  IN /\ r.op = "generate" /\ r.pc = "chore"
     /\ autoinc.chores <= MaxGenerated
     /\ StoreTables(g)
     /\ procs' = [procs EXCEPT ![p].chore_id = autoinc.chores,
                               ![p].pc = IF r.assignee # NULL THEN "assignment" ELSE "record"]
     /\ UNCHANGED <<users, chore_submissions, completed_tasks, now, patched, attempts>>

GenerateInsertAssignment(p) ==
  LET r == procs[p]
      g == InsertGeneratedAssignment(Tables, r.chore_id, r.assignee)
  IN /\ r.op = "generate" /\ r.pc = "assignment"
     /\ autoinc.chore_assignments <= MaxRows
     /\ StoreTables(g)
     /\ procs' = [procs EXCEPT ![p].pc = "record"]
     /\ UNCHANGED <<users, chore_submissions, completed_tasks, now, patched, attempts>>

GenerateInsertHistory(p) ==
  LET r == procs[p]
      g == InsertHistory(Tables, Current(r), CurrentRow(r), r.chore_id, r.assignee)
  IN /\ r.op = "generate" /\ r.pc = "record"
     /\ autoinc.recurring_chore_history <= MaxGenerated
     /\ StoreTables(g)
     /\ procs' = [procs EXCEPT ![p].pc = "advance"]
     /\ UNCHANGED <<users, chore_submissions, completed_tasks, now, patched, attempts>>

GenerateAdvance(p) ==
  LET r == procs[p]
      g == AdvanceTemplate(Tables, Current(r), CurrentRow(r), now)
  IN /\ r.op = "generate" /\ r.pc = "advance"
     /\ StoreTables(g)
     /\ procs' = NextTemplate(p)
     /\ UNCHANGED <<users, chore_submissions, completed_tasks, now, patched, attempts>>

\* A write of the run is rejected by the database (connection lost, lock wait
\* timeout, constraint): the query throws, nothing catches it inside the loop,
\* and the run ends with the writes it has already made.
GenerateWriteFails(p) ==
  LET r == procs[p]
  IN /\ r.op = "generate" /\ r.pc \in {"chore", "assignment", "record", "advance"}
     /\ procs' = Finish(p)
     /\ UNCHANGED <<db, now, patched, attempts>>

\* Round robin: templates whose member list is any list without repetition
\* over three users, created and changed by one parent, generated by the
\* manual endpoint and the scheduled job.
MemberLists ==
  {m \in UNION {[1..n -> {2, 3, 4}] : n \in 1..3} :
     \A i, j \in 1..Len(m) : m[i] = m[j] => i = j}

RotationParts ==
  {AssignPart(FALSE, NULL, "none", <<>>)}
    \cup {AssignPart(TRUE, NULL, "round_robin", m) : m \in MemberLists}

RotationCreateBodies ==
  [title : {TRUE}, frequency : {"daily"}, day_of_week : {""}, start_date : {1},
   end_date : {NULL}, assign : RotationParts]

RotationUpdateBodies ==
  [start_date : {Absent}, frequency : {""}, day_of_week : {""}, end_date : {NULL},
   is_active : {Absent}, assign : RotationParts]

NextRoundRobin ==
  \/ \E body \in RotationCreateBodies : CreateRecurring(1, body)
  \/ \E id \in TemplateIds, body \in RotationUpdateBodies : UpdateRecurring(1, id, body)
  \/ \E id \in TemplateIds \cup {NULL} : Generate(1, id, 0)
  \/ ScheduledJob(0)
  \/ Tick

SpecRoundRobin == Init /\ [][NextRoundRobin]_vars

\* Round robin over a template that is never updated: one parent creates it
\* with a list of two or three distinct members, chores are generated by the
\* manual endpoint and the scheduled job, and the parent deletes chores.
FairCreateBodies ==
  {body \in RotationCreateBodies :
     body.assign.rotation_type = "round_robin" /\ Len(body.assign.rotation_members) >= 2}

NextFairness ==
  \/ \E body \in FairCreateBodies : CreateRecurring(1, body)
  \/ \E id \in TemplateIds \cup {NULL} : Generate(1, id, 0)
  \/ ScheduledJob(0)
  \/ \E id \in ChoreIds : Delete(1, id)
  \/ Tick

SpecFairness == Init /\ [][NextFairness]_vars

\* The lifecycle with approvals served one query at a time.
ProcIds == DOMAIN procs

NextApproveRace ==
  \/ \E caller \in UserIds, body \in CreateBodies : Create(caller, body)
  \/ \E caller \in UserIds, id \in ChoreIds, userId \in {2, 3, 4} : Assign(caller, id, userId)
  \/ \E caller \in UserIds, id \in ChoreIds : Accept(caller, id)
  \/ \E caller \in UserIds, id \in ChoreIds : Decline(caller, id)
  \/ \E caller \in UserIds, id \in ChoreIds, photo \in BOOLEAN : Submit(caller, id, photo)
  \/ \E caller \in UserIds, id \in ChoreIds : Reject(caller, id)
  \/ \E caller \in UserIds, id \in ChoreIds : ApproveSelectChore(caller, id)
  \/ \E p \in ProcIds : ApproveSelectSubmission(p)
  \/ \E p \in ProcIds : ApproveTransaction(p)

SpecApproveRace == Init /\ [][NextApproveRace]_vars

\* Generation runs served one query at a time: manual requests and the
\* scheduled job on the templates of the day, with writes that may fail.
NextGenerateRace ==
  \/ \E caller \in UserIds, body \in RecurringBodies : CreateRecurring(caller, body)
  \/ \E caller \in UserIds, id \in TemplateIds \cup {NULL} : GenerateSelect(caller, id)
  \/ ScheduledSelect
  \/ \E p \in ProcIds : GenerateCheckHistory(p)
  \/ \E p \in ProcIds, pick \in {0, 1} : GenerateResolve(p, pick)
  \/ \E p \in ProcIds : GenerateInsertChore(p)
  \/ \E p \in ProcIds : GenerateInsertAssignment(p)
  \/ \E p \in ProcIds : GenerateInsertHistory(p)
  \/ \E p \in ProcIds : GenerateAdvance(p)
  \/ \E p \in ProcIds : GenerateWriteFails(p)

SpecGenerateRace == Init /\ [][NextGenerateRace]_vars

\* The parent-only operations of both routers, requested by every user.
RoleCreateBodies ==
  {[title |-> TRUE, reward_amount |-> 1, reward_type |-> "money", requires_photo |-> FALSE,
    assign |-> ap] : ap \in {AssignPart(FALSE, NULL, "none", <<>>), AssignPart(TRUE, 2, "none", <<>>)}}

RoleRecurringBodies ==
  [title : {TRUE}, frequency : {"daily"}, day_of_week : {""}, start_date : {1},
   end_date : {NULL}, assign : {AssignPart(FALSE, NULL, "none", <<>>)}]

RoleUpdateBodies ==
  [start_date : {Absent}, frequency : {""}, day_of_week : {""}, end_date : {NULL},
   is_active : {0, 1}, assign : {AssignPart(FALSE, NULL, "none", <<>>)}]

NextRoles ==
  \/ \E caller \in UserIds, body \in RoleCreateBodies : Create(caller, body)
  \/ \E caller \in UserIds, id \in ChoreIds, userId \in {2, 3} : Assign(caller, id, userId)
  \/ \E caller \in UserIds, id \in ChoreIds : Accept(caller, id)
  \/ \E caller \in UserIds, id \in ChoreIds : Submit(caller, id, TRUE)
  \/ \E caller \in UserIds, id \in ChoreIds : Approve(caller, id)
  \/ \E caller \in UserIds, id \in ChoreIds : Reject(caller, id)
  \/ \E caller \in UserIds, id \in ChoreIds : Delete(caller, id)
  \/ \E caller \in UserIds, body \in RoleRecurringBodies : CreateRecurring(caller, body)
  \/ \E caller \in UserIds, id \in TemplateIds, body \in RoleUpdateBodies :
        UpdateRecurring(caller, id, body)
  \/ \E caller \in UserIds, id \in TemplateIds : DeleteRecurring(caller, id)
  \/ \E caller \in UserIds, id \in TemplateIds \cup {NULL} : Generate(caller, id, 0)

SpecRoles == Init /\ [][NextRoles]_vars

\* Logins of two accounts over the days of the clock.
LoginAccounts == {1, 2}

NextLogin ==
  \/ \E u \in LoginAccounts, isPasswordCorrect \in BOOLEAN : Login(u, isPasswordCorrect)
  \/ Tick

SpecLogin == Init /\ [][NextLogin]_vars

\* Templates of every frequency, starting on 30 or 31 January, and their
\* generations one after the other.
PeriodBodies ==
  [title : {TRUE}, frequency : {"daily", "weekly", "monthly", "custom"},
   day_of_week : {"", "monday"}, start_date : StartDates, end_date : {NULL},
   assign : {AssignPart(FALSE, NULL, "none", <<>>)}]

NextPeriods ==
  \/ \E body \in PeriodBodies : CreateRecurring(1, body)
  \/ \E id \in TemplateIds : DeleteRecurring(1, id)
  \/ \E id \in TemplateIds \cup {NULL} : Generate(1, id, 0)
  \/ ScheduledJob(0)
  \/ Tick

SpecPeriods == Init /\ [][NextPeriods]_vars

\* ------------------------------------------- two lifecycle requests at once
\* The tables a lifecycle request reads and writes, as one value.
LifecycleTables ==
  [users |-> users, chores |-> chores, chore_assignments |-> chore_assignments,
   chore_submissions |-> chore_submissions, completed_tasks |-> completed_tasks,
   recurring_chore_history |-> recurring_chore_history, autoinc |-> autoinc]

StoreLifecycle(g) ==
  /\ users' = g.users
  /\ chores' = g.chores
  /\ chore_assignments' = g.chore_assignments
  /\ chore_submissions' = g.chore_submissions
  /\ completed_tasks' = g.completed_tasks
  /\ recurring_chore_history' = g.recurring_chore_history
  /\ autoinc' = g.autoinc

\* The requests: assign names the user to assign, the others only the chore.
Request(op, caller, id, userId) == [op |-> op, caller |-> caller, id |-> id, userId |-> userId]

LifecycleRequests ==
  {Request("assign", caller, id, userId) :
     caller \in {1}, id \in 1..MaxChores, userId \in {2, 3}}
    \cup {Request(op, caller, id, NULL) :
            op \in {"accept", "decline"}, caller \in {2, 3}, id \in 1..MaxChores}
    \cup {Request(op, caller, id, NULL) :
            op \in {"approve", "reject", "delete"}, caller \in {1}, id \in 1..MaxChores}

\* What the guard queries of a handler return in tables g: ok is FALSE when
\* the handler answers 400, 403 or 404 and writes nothing.
LifecycleRead(g, q) ==
  LET found == q.id \in DOMAIN g.chores
      chore == g.chores[q.id]
      inFamily == found /\ chore.family_id = FamilyOf(q.caller)
      mine == {i \in DOMAIN g.chore_submissions :
                 /\ g.chore_submissions[i].chore_id = q.id
                 /\ g.chore_submissions[i].user_id = chore.assigned_to}
      pending == inFamily /\ chore.status = "pending_approval" /\ mine # {}
      ok == CASE q.op \in {"accept", "decline"} ->
                   /\ found
                   /\ chore.assigned_to = q.caller
                   /\ chore.status = "pending_acceptance"
              [] q.op = "assign" ->
                   /\ Role(q.caller) = "parent"
                   /\ q.userId # NULL
                   /\ inFamily
                   /\ q.userId \in UserIds /\ FamilyOf(q.userId) = FamilyOf(q.caller)
              [] q.op = "approve" ->
                   Role(q.caller) = "parent" /\ pending /\ chore.assigned_to \in UserIds
              [] q.op = "reject" -> Role(q.caller) = "parent" /\ pending
              [] q.op = "delete" ->
                   Role(q.caller) = "parent" /\ inFamily /\ chore.status # "completed"
  IN [ok |-> ok,
      chore |-> IF ok THEN chore ELSE NULL,
      submission |-> IF ok /\ q.op \in {"approve", "reject"} THEN Max(mine) ELSE NULL]

\* UPDATE chores SET ... WHERE id = ?: no row is touched when the chore is gone.
UpdateChore(table, id, status) ==
  IF id \in DOMAIN table THEN [table EXCEPT ![id].status = status] ELSE table

\* UPDATE chore_submissions SET status = ? WHERE id = ?
UpdateSubmission(table, id, status) ==
  IF id \in DOMAIN table THEN [table EXCEPT ![id].status = status] ELSE table

\* UPDATE chore_assignments SET status = ? WHERE chore_id = ? AND user_id = ?
\*   AND status = 'pending'
AnswerIn(table, choreId, userId, status) ==
  [i \in DOMAIN table |->
     IF table[i].chore_id = choreId /\ table[i].user_id = userId /\ table[i].status = "pending"
     THEN [table[i] EXCEPT !.status = status]
     ELSE table[i]]

\* The rows of a dependent table that survive the cascade of DELETE FROM chores.
CascadeIn(table, id) == [i \in {j \in DOMAIN table : table[j].chore_id # id} |-> table[i]]

\* The tables after the writes of the handler, made from the rows it read.  An
\* INSERT that names a chore deleted in the meantime breaks the foreign key on
\* chore_id, and the transaction is rolled back.
LifecycleWrite(g, q, read) ==
  CASE q.op = "accept" ->
         [g EXCEPT !.chore_assignments = AnswerIn(@, q.id, q.caller, "accepted"),
                   !.chores = UpdateChore(@, q.id, "in_progress")]
    [] q.op = "decline" ->
         [g EXCEPT !.chore_assignments = AnswerIn(@, q.id, q.caller, "declined"),
                   !.chores = IF q.id \in DOMAIN @
                              THEN [@ EXCEPT ![q.id].status = "available",
                                             ![q.id].assigned_to = NULL,
                                             ![q.id].assigned_at = NULL]
                              ELSE @]
    [] q.op = "assign" ->
         IF q.id \notin DOMAIN g.chores THEN g
         ELSE [g EXCEPT !.chore_assignments =
                          Insert(@, g.autoinc.chore_assignments,
                                 NewAssignment(q.id, q.userId, q.caller)),
                        !.autoinc.chore_assignments = @ + 1,
                        !.chores = [@ EXCEPT ![q.id].assigned_to = q.userId,
                                             ![q.id].assigned_at = now,
                                             ![q.id].status = "pending_acceptance"]]
    [] q.op = "approve" ->
         IF q.id \notin DOMAIN g.chores THEN g
         ELSE [g EXCEPT !.chore_submissions = UpdateSubmission(@, read.submission, "approved"),
                        !.completed_tasks =
                          Insert(@, g.autoinc.completed_tasks,
                                 [chore_id |-> q.id, user_id |-> read.chore.assigned_to,
                                  submission_id |-> read.submission,
                                  reward_type |-> read.chore.reward_type,
                                  reward_earned |-> read.chore.current_reward]),
                        !.autoinc.completed_tasks = @ + 1,
                        !.users = Credit(@, read.chore.assigned_to, read.chore.reward_type,
                                         read.chore.current_reward),
                        !.chores = UpdateChore(@, q.id, "completed")]
    [] q.op = "reject" ->
         [g EXCEPT !.chore_submissions = UpdateSubmission(@, read.submission, "rejected"),
                   !.chores = UpdateChore(@, q.id, "in_progress")]
    [] q.op = "delete" ->
         [g EXCEPT !.chores = [i \in DOMAIN @ \ {q.id} |-> @[i]],
                   !.chore_assignments = CascadeIn(@, q.id),
                   !.chore_submissions = CascadeIn(@, q.id),
                   !.completed_tasks = CascadeIn(@, q.id),
                   !.recurring_chore_history = CascadeIn(@, q.id)]

\* The tables after the request has been served alone in tables g.
Serve(g, q) ==
  LET read == LifecycleRead(g, q)
  IN IF read.ok THEN LifecycleWrite(g, q, read) ELSE g

\* The pairs of operations that run at the same time.
ConcurrentPairs ==
  {{"approve", "reject"}, {"approve", "delete"}, {"accept", "decline"}, {"assign", "accept"}}

\* The guard queries of request q.  A second request comes in only while a
\* first one, alone so far, waits between its guard and its writes; both
\* records keep the tables as they were when the first came in.
LifecycleSelect(q) ==
  LET read == LifecycleRead(LifecycleTables, q)
      first == {p \in DOMAIN procs : TRUE}
  IN /\ read.ok
     /\ autoinc.chore_assignments <= MaxRows
     /\ autoinc.completed_tasks <= MaxRows
     /\ \/ /\ procs = EmptyTable
           /\ procs' = Start([op |-> "lifecycle", request |-> q, read |-> read,
                              start |-> LifecycleTables, peer |-> {}])
        \/ /\ Cardinality(first) = 1
           /\ \A p \in first :
                /\ procs[p].op = "lifecycle"
                /\ procs[p].peer = {}
                /\ procs[p].request.id = q.id
                /\ {procs[p].request.op, q.op} \in ConcurrentPairs
                /\ procs' = Insert([procs EXCEPT ![p].peer = {q}], FreeProc,
                                   [op |-> "lifecycle", request |-> q, read |-> read,
                                    start |-> procs[p].start, peer |-> {procs[p].request}])
     /\ UNCHANGED <<db, now, patched, attempts>>

\* The transaction (for delete: the DELETE statement) of a request in flight.
LifecycleTransaction(p) ==
  LET r == procs[p]
  IN /\ r.op = "lifecycle"
     /\ StoreLifecycle(LifecycleWrite(LifecycleTables, r.request, r.read))
     /\ procs' = Finish(p)
     /\ UNCHANGED <<recurring_chores, now, patched, attempts>>

\* Chores are created and submitted between the pairs.
RaceCreateBodies ==
  {[title |-> TRUE, reward_amount |-> 1, reward_type |-> "money", requires_photo |-> FALSE,
    assign |-> AssignPart(FALSE, NULL, "none", <<>>)]}

NextLifecycleRace ==
  \/ \E body \in RaceCreateBodies : procs = EmptyTable /\ Create(1, body)
  \/ \E caller \in {2, 3}, id \in ChoreIds : procs = EmptyTable /\ Submit(caller, id, TRUE)
  \/ \E q \in LifecycleRequests : LifecycleSelect(q)
  \/ \E p \in ProcIds : LifecycleTransaction(p)

SpecLifecycleRace == Init /\ [][NextLifecycleRace]_vars

\* ------------------------------------------------- transaction(callback)
\* The rows a connection has written and not yet committed.
NoWrites == [chores |-> EmptyTable, chore_assignments |-> EmptyTable]

\* COMMIT without its writes.
CommitNothing(table, written) == table

\* COMMIT: the rows written on the connection become rows of the table.
Commit(table, written) ==
  [i \in DOMAIN table \cup DOMAIN written |->
     IF i \in DOMAIN written THEN written[i] ELSE table[i]]

TransactionBodies ==
  {[title |-> TRUE, reward_amount |-> 1, reward_type |-> "money", requires_photo |-> FALSE,
    assign |-> AssignPart(auto, assignee, "none", <<>>)] :
     auto \in BOOLEAN, assignee \in {2}}

\* const connection = await pool.getConnection(), for the callback of
\* POST /chores.  When the pool gives no connection nothing has been acquired.
GetConnection(caller, body) ==
  /\ CreateCode(caller, body) = 201
  /\ Cardinality(DOMAIN procs) < MaxProcs
  /\ autoinc.chores <= MaxTransactions
  /\ \E assignee \in initialAssignedTo(body.assign) :
       procs' = Start([op |-> "transaction", pc |-> "begin", caller |-> caller,
                       body |-> body, assignee |-> assignee, choreId |-> NULL,
                       written |-> NoWrites, outcome |-> "none", released |-> 0])
  /\ UNCHANGED <<db, now, patched, attempts>>

\* await connection.beginTransaction()
BeginTransaction(p, ok) ==
  /\ procs[p].op = "transaction" /\ procs[p].pc = "begin"
  /\ procs' = [procs EXCEPT ![p].pc = IF ok THEN "insert_chore" ELSE "rollback"]
  /\ UNCHANGED <<db, now, patched, attempts>>

\* callback: INSERT INTO chores.  The AUTO_INCREMENT value is taken at once
\* and is not given back by a rollback.
CallbackInsertChore(p, ok) ==
  LET r == procs[p]
      choreId == autoinc.chores
  IN /\ r.op = "transaction" /\ r.pc = "insert_chore"
     /\ IF ok
        THEN /\ procs' = [procs EXCEPT
                  ![p].pc = IF r.assignee # NULL THEN "insert_assignment" ELSE "commit",
                  ![p].choreId = choreId,
                  ![p].written.chores =
                     Insert(@, choreId,
                            NewChore(FamilyOf(r.caller), r.assignee, r.body.reward_type,
                                     r.body.reward_amount, r.body.requires_photo,
                                     r.caller, NULL, NULL))]
             /\ autoinc' = [autoinc EXCEPT !.chores = @ + 1]
        ELSE /\ procs' = [procs EXCEPT ![p].pc = "rollback"]
             /\ UNCHANGED autoinc
     /\ UNCHANGED <<users, chores, chore_assignments, chore_submissions, completed_tasks,
                    recurring_chores, recurring_chore_history, now, patched, attempts>>

\* callback: if (initialAssignedTo) INSERT INTO chore_assignments; return choreId
CallbackInsertAssignment(p, ok) ==
  LET r == procs[p]
  IN /\ r.op = "transaction" /\ r.pc = "insert_assignment"
     /\ IF ok
        THEN /\ procs' = [procs EXCEPT
                  ![p].pc = "commit",
                  ![p].written.chore_assignments =
                     Insert(@, autoinc.chore_assignments,
                            NewAssignment(r.choreId, r.assignee, r.caller))]
             /\ autoinc' = [autoinc EXCEPT !.chore_assignments = @ + 1]
        ELSE /\ procs' = [procs EXCEPT ![p].pc = "rollback"]
             /\ UNCHANGED autoinc
     /\ UNCHANGED <<users, chores, chore_assignments, chore_submissions, completed_tasks,
                    recurring_chores, recurring_chore_history, now, patched, attempts>>

\* await connection.commit(); return result
CommitTransaction(p, ok) ==
  LET r == procs[p]
  IN /\ r.op = "transaction" /\ r.pc = "commit"
     /\ IF ok
        THEN /\ chores' = Commit(chores, r.written.chores)
             /\ chore_assignments' = Commit(chore_assignments, r.written.chore_assignments)
             /\ procs' = [procs EXCEPT ![p].pc = "release", ![p].outcome = "returned",
                                       ![p].written = NoWrites]
        ELSE /\ procs' = [procs EXCEPT ![p].pc = "rollback"]
             /\ UNCHANGED <<chores, chore_assignments>>
     /\ UNCHANGED <<users, chore_submissions, completed_tasks, recurring_chores,
                    recurring_chore_history, autoinc, now, patched, attempts>>

\* catch (error) { await connection.rollback(); throw error }.  A rollback
\* that fails (the connection is lost) throws its own error in place of the
\* first one, and the server discards the open transaction.
RollbackTransaction(p, ok) ==
  /\ procs[p].op = "transaction" /\ procs[p].pc = "rollback"
  /\ procs' = [procs EXCEPT ![p].pc = "release", ![p].outcome = "thrown",
                            ![p].written = NoWrites]
  /\ UNCHANGED <<db, now, patched, attempts>>

\* finally { connection.release() }
ReleaseConnection(p) ==
  /\ procs[p].op = "transaction" /\ procs[p].pc = "release"
  /\ procs' = [procs EXCEPT ![p].pc = "done", ![p].released = @ + 1]
  /\ UNCHANGED <<db, now, patched, attempts>>

\* The caller of transaction() goes on: the handler answers 201, or
\* catchAsync hands the error to the error handler.
TransactionDone(p) ==
  /\ procs[p].op = "transaction" /\ procs[p].pc = "done"
  /\ procs' = Finish(p)
  /\ UNCHANGED <<db, now, patched, attempts>>

NextTransaction ==
  \/ \E body \in TransactionBodies : GetConnection(1, body)
  \/ \E p \in ProcIds, ok \in BOOLEAN : BeginTransaction(p, ok)
  \/ \E p \in ProcIds, ok \in BOOLEAN : CallbackInsertChore(p, ok)
  \/ \E p \in ProcIds, ok \in BOOLEAN : CallbackInsertAssignment(p, ok)
  \/ \E p \in ProcIds, ok \in BOOLEAN : CommitTransaction(p, ok)
  \/ \E p \in ProcIds, ok \in BOOLEAN : RollbackTransaction(p, ok)
  \/ \E p \in ProcIds : ReleaseConnection(p)
  \/ \E p \in ProcIds : TransactionDone(p)

SpecTransaction == Init /\ [][NextTransaction]_vars

\* ----------------------------------------- activity log and notifications
\* The response code of a lifecycle handler.
LifecycleCode(q) ==
  CASE q.op = "assign" -> AssignCode(q.caller, q.id, q.userId)
    [] q.op = "accept" -> AcceptCode(q.caller, q.id)
    [] q.op = "decline" -> DeclineCode(q.caller, q.id)
    [] q.op = "approve" -> ApproveCode(q.caller, q.id)
    [] q.op = "reject" -> RejectCode(q.caller, q.id)
    [] q.op = "delete" -> DeleteCode(q.caller, q.id)

\* res.json as wrapped by logActivity: the logging is queued with setImmediate
\* when the status is below 400 and protect has set the user of the request.
logActivity(code, caller) ==
  IF code < 400 /\ caller \in UserIds THEN "pending" ELSE "none"

\* notifyUser that lets the error of a failed dispatch out.
notifyUserThrows(ok) == [success |-> ok, thrown |-> ~ok]

\* notifyUser: try { ... return {success: true} } catch { return {success: false} }
notifyUser(ok) == [success |-> ok, thrown |-> FALSE]

\* logUserActivity: try { ... INSERT INTO activity_log } catch { console.error }
logUserActivity(ok) == [row |-> ok, thrown |-> FALSE]

\* A lifecycle handler from its guard to res.json, or to the error handler.
HandleLifecycle(q) ==
  LET code == LifecycleCode(q)
  IN /\ Cardinality(DOMAIN procs) < MaxProcs
     /\ autoinc.chore_assignments <= MaxRows
     /\ autoinc.completed_tasks <= MaxRows
     /\ StoreLifecycle(Serve(LifecycleTables, q))
     /\ procs' = Start([op |-> "response", request |-> q, code |-> code, sent |-> TRUE,
                        stored |-> code < 400, log |-> logActivity(code, q.caller),
                        notify |-> "none", unhandled |-> FALSE])
     /\ UNCHANGED <<recurring_chores, now, patched, attempts>>

\* POST /notifications/push-subscription: 400 without an endpoint; otherwise
\* the subscription is stored, notifyUser is called without await and the
\* response is sent.
HandleSubscription(caller, endpoint) ==
  LET code == IF endpoint THEN 200 ELSE 400
  IN /\ Cardinality(DOMAIN procs) < MaxProcs
     /\ procs' = Start([op |-> "response", request |-> Request("subscribe", caller, NULL, NULL),
                        code |-> code, sent |-> TRUE, stored |-> endpoint,
                        log |-> logActivity(code, caller),
                        notify |-> IF endpoint THEN "pending" ELSE "none",
                        unhandled |-> FALSE])
     /\ UNCHANGED <<db, now, patched, attempts>>

\* setImmediate(() => logUserActivity(req, res, data).catch(...))
LogUserActivity(p, ok) ==
  LET result == logUserActivity(ok)
  IN /\ procs[p].op = "response" /\ procs[p].log = "pending"
     /\ procs' = [procs EXCEPT ![p].log = IF result.row THEN "written" ELSE "failed",
                               ![p].unhandled = @ \/ result.thrown]
     /\ UNCHANGED <<db, now, patched, attempts>>

\* The promise of the notifyUser call settles.
NotifyUser(p, ok) ==
  LET result == notifyUser(ok)
  IN /\ procs[p].op = "response" /\ procs[p].notify = "pending"
     /\ procs' = [procs EXCEPT ![p].notify = IF result.success THEN "sent" ELSE "failed",
                               ![p].unhandled = @ \/ result.thrown]
     /\ UNCHANGED <<db, now, patched, attempts>>

\* Nothing of the request is left to run.
ResponseDone(p) ==
  /\ procs[p].op = "response"
  /\ procs[p].log # "pending" /\ procs[p].notify # "pending"
  /\ procs' = Finish(p)
  /\ UNCHANGED <<db, now, patched, attempts>>

NextSideEffects ==
  \/ \E body \in RaceCreateBodies : Create(1, body)
  \/ \E caller \in {2, 3}, id \in ChoreIds : Submit(caller, id, TRUE)
  \/ \E q \in LifecycleRequests : HandleLifecycle(q)
  \/ \E caller \in {2}, endpoint \in BOOLEAN : HandleSubscription(caller, endpoint)
  \/ \E p \in ProcIds, ok \in BOOLEAN : LogUserActivity(p, ok)
  \/ \E p \in ProcIds, ok \in BOOLEAN : NotifyUser(p, ok)
  \/ \E p \in ProcIds : ResponseDone(p)

SpecSideEffects == Init /\ [][NextSideEffects]_vars

\* --------------------------------------------------------- PATCH /users/:id
\* Middleware of the users router: 0 when the request is let through.  A
\* parent reaches the users of the family, a child only the child's own row.
checkUserAccess(caller, id) ==
  IF Role(caller) = "parent"
  THEN IF id \notin UserIds THEN 404
       ELSE IF FamilyOf(id) # FamilyOf(caller) THEN 403
       ELSE 0
  ELSE IF id # caller THEN 403
  ELSE 0

\* The updatable columns with those of a parent given to every caller.
userAllowedFieldsAnyRole(caller) ==
  {"name", "avatar_url", "preferences", "role", "earnings", "screen_time_earned"}

\* allowedFields; if (req.user.role === 'parent') allowedFields.push(...)
userAllowedFields(caller) ==
  {"name", "avatar_url", "preferences"}
    \cup (IF Role(caller) = "parent" THEN {"role", "earnings", "screen_time_earned"} ELSE {})

\* Request bodies of PATCH /users/:id: no key, one key, or a name with a balance.
UserBodies ==
  {[k \in {} |-> NULL]}
    \cup {[k \in {"name"} |-> TRUE]}
    \cup {[k \in {"role"} |-> v] : v \in {"parent", "child"}}
    \cup {[k \in {"earnings"} |-> v] : v \in {0}}
    \cup {[k \in {"screen_time_earned"} |-> v] : v \in {3}}
    \cup {[k \in {"name", "earnings"} |-> IF k = "name" THEN TRUE ELSE 3]}

\* Object.keys(req.body).forEach(key => allowedFields.includes(key) ...)
FilterUserFields(caller, body) == [k \in DOMAIN body \cap userAllowedFields(caller) |-> body[k]]

\* UPDATE users SET <key> = ? for every key of updates (name, avatar_url and
\* preferences are columns outside the modelled row).
SetUserFields(row, updates) ==
  [row EXCEPT
     !.role = IF "role" \in DOMAIN updates THEN updates["role"] ELSE @,
     !.earnings = IF "earnings" \in DOMAIN updates THEN updates["earnings"] ELSE @,
     !.screen_time_earned =
        IF "screen_time_earned" \in DOMAIN updates THEN updates["screen_time_earned"] ELSE @]

UpdateUserCode(caller, id, body) ==
  IF checkUserAccess(caller, id) # 0 THEN checkUserAccess(caller, id)
  ELSE IF DOMAIN FilterUserFields(caller, body) = {} THEN 400
  ELSE 200

UpdateUser(caller, id, body) ==
  /\ UpdateUserCode(caller, id, body) = 200
  /\ users' = [users EXCEPT ![id] = SetUserFields(@, FilterUserFields(caller, body))]
  /\ UNCHANGED <<chores, chore_assignments, chore_submissions, completed_tasks,
                 recurring_chores, recurring_chore_history, autoinc, now, patched, attempts, procs>>

\* The users router beside the chore lifecycle up to the approval.
NextUsers ==
  \/ \E caller \in 1..3, id \in 2..5, body \in UserBodies : UpdateUser(caller, id, body)
  \/ \E caller \in 1..2, body \in RaceCreateBodies : Create(caller, body)
  \/ \E caller \in 1..2, id \in ChoreIds, userId \in {2} : Assign(caller, id, userId)
  \/ \E caller \in 1..2, id \in ChoreIds : Accept(caller, id)
  \/ \E caller \in 1..2, id \in ChoreIds, photo \in BOOLEAN : Submit(caller, id, photo)
  \/ \E caller \in 1..2, id \in ChoreIds : Approve(caller, id)

SpecUsers == Init /\ [][NextUsers]_vars

\* ------------------------------------------- authRateLimit(maxAttempts, windowMs)
ClientIps == {1, 2}

\* The limiter with a window that is never looked at: only the count decides.
authRateLimitNoExpiry(map, ip, t, maxAttempts) ==
  IF ip \notin DOMAIN map THEN 0
  ELSE IF map[ip].count >= maxAttempts THEN 429
  ELSE 0

\* The answer of the middleware for a request of ip at time t: 0 when it
\* calls next(), 429 when it answers itself.
authRateLimit(map, ip, t, maxAttempts) ==
  IF ip \notin DOMAIN map THEN 0
  ELSE IF t > map[ip].resetTime THEN 0
  ELSE IF map[ip].count >= maxAttempts THEN 429
  ELSE 0

\* The Map after a request that was passed.
CountAttempt(map, ip, t, windowMs) ==
  IF ip \notin DOMAIN map \/ t > map[ip].resetTime
  THEN [i \in DOMAIN map \cup {ip} |->
          IF i = ip THEN [count |-> 1, resetTime |-> t + windowMs] ELSE map[i]]
  ELSE [map EXCEPT ![ip].count = @ + 1]

\* A request the limiter passes: the handler behind it is called (and stays
\* in flight).
PassedRequest(ip) ==
  /\ authRateLimit(attempts, ip, now, RateMaxAttempts) = 0
  /\ Cardinality(DOMAIN procs) < MaxPassed
  /\ attempts' = CountAttempt(attempts, ip, now, RateWindow)
  /\ procs' = Insert(procs, Cardinality(DOMAIN procs) + 1,
                   [op |-> "handler", ip |-> ip, at |-> now])
  /\ UNCHANGED <<db, now, patched>>

\* A request the limiter answers with 429: no handler is called and the Map
\* is left as it is.
RefusedRequest(ip) ==
  /\ authRateLimit(attempts, ip, now, RateMaxAttempts) = 429
  /\ UNCHANGED vars

NextRateLimit ==
  \/ \E ip \in ClientIps : PassedRequest(ip)
  \/ \E ip \in ClientIps : RefusedRequest(ip)
  \/ Tick

SpecRateLimit == Init /\ [][NextRateLimit]_vars

\* A generation batch: BatchSize templates of family 1, created by its
\* parent at the initial time and due today, and generation runs served one
\* query at a time with writes that may fail.
BatchBodies ==
  [title : {TRUE}, frequency : {"daily"}, day_of_week : {""}, start_date : {0, 1},
   end_date : {NULL},
   assign : {AssignPart(FALSE, NULL, "none", <<>>), AssignPart(TRUE, 2, "none", <<>>)}]

InitBatch ==
  /\ users = [u \in UserIds |-> [earnings |-> 0, screen_time_earned |-> 0,
                                 login_attempts |-> 0, locked_until |-> NULL,
                                 role |-> InitialRole(u)]]
  /\ chores = EmptyTable
  /\ chore_assignments = EmptyTable
  /\ chore_submissions = EmptyTable
  /\ completed_tasks = EmptyTable
  /\ now = 24 + CronHour
  /\ \E bodies \in [1..BatchSize -> BatchBodies] :
        recurring_chores = [id \in 1..BatchSize |-> NewTemplate(1, bodies[id], now)]
  /\ recurring_chore_history = EmptyTable
  /\ autoinc = [chores |-> 1, chore_assignments |-> 1, chore_submissions |-> 1,
                completed_tasks |-> 1, recurring_chores |-> BatchSize + 1,
                recurring_chore_history |-> 1]
  /\ patched = 0
  /\ attempts = [i \in {} |-> NULL]
  /\ procs = EmptyTable

NextBatch ==
  \/ \E caller \in UserIds : GenerateSelect(caller, NULL)
  \/ ScheduledSelect
  \/ \E p \in ProcIds : GenerateCheckHistory(p)
  \/ \E p \in ProcIds, pick \in {0, 1} : GenerateResolve(p, pick)
  \/ \E p \in ProcIds : GenerateInsertChore(p)
  \/ \E p \in ProcIds : GenerateInsertAssignment(p)
  \/ \E p \in ProcIds : GenerateInsertHistory(p)
  \/ \E p \in ProcIds : GenerateAdvance(p)
  \/ \E p \in ProcIds : GenerateWriteFails(p)

SpecBatch == InitBatch /\ [][NextBatch]_vars

\* ================================================================== claims
\* ------------------------------------------------------------------ C1
\* C1: Approve succeeds only for a chore of the caller's family in status
\* pending_approval, and a parent's Approve of a family chore in any other
\* status is answered 404; every successful Approve adds exactly one
\* completed_tasks row whose reward_earned is the chore's current_reward,
\* adds that amount once to the assignee's earnings (money) or
\* screen_time_earned (screen_time) and to no other balance, marks the latest
\* submission approved and sets the chore to completed, in one step.
C1_ApproveContract ==
  /\ [](\A caller \in UserIds, id \in DOMAIN chores :
          /\ ApproveCode(caller, id) = 200 =>
               /\ chores[id].family_id = FamilyOf(caller)
               /\ chores[id].status = "pending_approval"
          /\ (/\ Role(caller) = "parent"
              /\ chores[id].family_id = FamilyOf(caller)
              /\ chores[id].status # "pending_approval") => ApproveCode(caller, id) = 404)
  /\ [][\A caller \in UserIds, id \in DOMAIN chores :
          Approve(caller, id) =>
            LET chore == chores[id]
                amount == chore.current_reward
                money == IF chore.reward_type = "money" THEN amount ELSE 0
                minutes == IF chore.reward_type = "screen_time" THEN amount ELSE 0
            IN /\ chore.status = "pending_approval"
               /\ chore.family_id = FamilyOf(caller)
               /\ Cardinality(DOMAIN completed_tasks' \ DOMAIN completed_tasks) = 1
               /\ DOMAIN completed_tasks \subseteq DOMAIN completed_tasks'
               /\ \A t \in DOMAIN completed_tasks' \ DOMAIN completed_tasks :
                    /\ completed_tasks'[t].chore_id = id
                    /\ completed_tasks'[t].user_id = chore.assigned_to
                    /\ completed_tasks'[t].reward_earned = amount
               /\ \A u \in UserIds :
                    /\ users'[u].earnings =
                         users[u].earnings + (IF u = chore.assigned_to THEN money ELSE 0)
                    /\ users'[u].screen_time_earned =
                         users[u].screen_time_earned + (IF u = chore.assigned_to THEN minutes ELSE 0)
               /\ chore_submissions'[LatestSubmission(id, chore.assigned_to)].status = "approved"
               /\ chores'[id].status = "completed"]_vars

\* C1 witness: an approved chore: completed, with its completed_tasks row, its
\* approved submission and the assignee's balance credited.
C1_Witness ==
  \E t \in DOMAIN completed_tasks :
     LET ct == completed_tasks[t]
     IN /\ ct.chore_id \in DOMAIN chores
        /\ chores[ct.chore_id].status = "completed"
        /\ ct.reward_earned = chores[ct.chore_id].current_reward
        /\ chore_submissions[ct.submission_id].status = "approved"
        /\ users[ct.user_id].earnings + users[ct.user_id].screen_time_earned = ct.reward_earned

\* ------------------------------------------------------------------ C2
\* C2: whatever the interleaving of concurrent Approve requests, no step adds
\* a completed_tasks row for a submission that already has one, and every
\* step that changes a balance is the one approval of a submission not yet
\* approved.
C2_ApprovedAtMostOnce ==
  [][/\ \A t \in DOMAIN completed_tasks' \ DOMAIN completed_tasks :
          \A t0 \in DOMAIN completed_tasks :
             completed_tasks[t0].submission_id # completed_tasks'[t].submission_id
     /\ \A u \in UserIds :
          users'[u] # users[u] =>
            \E s \in DOMAIN chore_submissions :
               /\ chore_submissions[s].status # "approved"
               /\ chore_submissions'[s].status = "approved"]_vars

\* C2 failing state: one submission with two completed_tasks rows and the
\* assignee credited twice the chore's reward.
C2_DoubleCredit ==
  \E t1, t2 \in DOMAIN completed_tasks :
     /\ t1 # t2
     /\ completed_tasks[t1].submission_id = completed_tasks[t2].submission_id
     /\ completed_tasks[t1].user_id = completed_tasks[t2].user_id
     /\ users[completed_tasks[t1].user_id].earnings
          + users[completed_tasks[t1].user_id].screen_time_earned
        = completed_tasks[t1].reward_earned + completed_tasks[t2].reward_earned

\* ------------------------------------------------------------------ C3
\* C3: every chore's status is one of the eight enumerated values and its
\* assigned_to is null if and only if its status is available.
C3_StatusAssigneeConsistent ==
  \A id \in DOMAIN chores :
     /\ chores[id].status \in ChoreStatus
     /\ (chores[id].assigned_to = NULL) <=> (chores[id].status = "available")

\* ------------------------------------------------------------------ C4
\* A step of one of the six transition operations on chore id.
TransitionOperation(id) ==
  \E caller \in UserIds :
     \/ \E userId \in UserIds : Assign(caller, id, userId)
     \/ Accept(caller, id)
     \/ Decline(caller, id)
     \/ \E photo \in BOOLEAN : Submit(caller, id, photo)
     \/ Approve(caller, id)
     \/ Reject(caller, id)

\* C4: completed is terminal: no assign, accept, decline, submit, approve or
\* reject step changes the status or the assignee of a completed chore.
C4_CompletedIsTerminal ==
  [][\A id \in DOMAIN chores :
       (chores[id].status = "completed" /\ TransitionOperation(id)) =>
         /\ chores'[id].status = "completed"
         /\ chores'[id].assigned_to = chores[id].assigned_to]_vars

\* ------------------------------------------------------------------ C5
\* C5: a completed_tasks row, once created, stays in the table unchanged
\* through every later operation.
C5_CompletedTaskKept ==
  [][\A t \in DOMAIN completed_tasks :
       /\ t \in DOMAIN completed_tasks'
       /\ completed_tasks'[t] = completed_tasks[t]]_vars

\* ------------------------------------------------------------------ C6
\* C6: a parent's Delete of a completed chore of the family is answered 400
\* and no step deletes a completed chore; a parent's Delete of a family chore
\* in any other status is possible and removes the chore row.
C6_DeleteContract ==
  /\ [](\A caller \in UserIds, id \in DOMAIN chores :
          (Role(caller) = "parent" /\ chores[id].family_id = FamilyOf(caller)) =>
            IF chores[id].status = "completed"
            THEN DeleteCode(caller, id) = 400 /\ ~ENABLED Delete(caller, id)
            ELSE DeleteCode(caller, id) = 200 /\ ENABLED Delete(caller, id))
  /\ [][\A caller \in UserIds, id \in DOMAIN chores :
          Delete(caller, id) =>
            /\ chores[id].status # "completed"
            /\ chores[id].family_id = FamilyOf(caller)
            /\ id \notin DOMAIN chores']_vars

\* C6 witness: a completed chore with its completed_tasks row, whose deletion
\* by the family's parent is answered 400.
C6_Witness ==
  \E id \in DOMAIN chores :
     /\ chores[id].status = "completed"
     /\ DeleteCode(1, id) = 400
     /\ \E t \in DOMAIN completed_tasks : completed_tasks[t].chore_id = id

\* ------------------------------------------------------------------ C7
\* C7: a chore in the status Create gives an automatically assigned chore
\* can be accepted by its assignee.
C7_AutoAssignedAcceptable ==
  \A id \in DOMAIN chores :
     (chores[id].status = InitialStatus(chores[id].assigned_to) /\ chores[id].assigned_to # NULL)
       => AcceptCode(chores[id].assigned_to, id) = 200

\* C7 witness of the failing case: an automatically assigned chore, never
\* patched, whose assignee's Accept is answered 404.
C7_AcceptRefused ==
  \E id \in DOMAIN chores :
     /\ patched = 0
     /\ chores[id].status = "assigned"
     /\ chores[id].assigned_to # NULL
     /\ AcceptCode(chores[id].assigned_to, id) = 404


\* ------------------------------------------------------------------ C8
\* C8: under complete, non-overlapping generation runs there is at most one
\* recurring_chore_history row and at most one generated chore for a
\* recurring_id and a calendar date of due_date.
C8_OncePerDueDate ==
  /\ \A h1, h2 \in DOMAIN recurring_chore_history :
        (/\ recurring_chore_history[h1].recurring_id = recurring_chore_history[h2].recurring_id
         /\ DATE(recurring_chore_history[h1].due_date) = DATE(recurring_chore_history[h2].due_date))
          => h1 = h2
  /\ \A c1, c2 \in DOMAIN chores :
        (/\ chores[c1].recurring_id # NULL
         /\ chores[c1].recurring_id = chores[c2].recurring_id
         /\ DATE(chores[c1].due_date) = DATE(chores[c2].due_date))
          => c1 = c2

\* C8 witness: a template that is due again for a date it has already been
\* generated for (its next_due_date was set back by PUT), with the chore of
\* that date: the state in which a further generation run meets the guard.
C8_Witness ==
  \E id \in DOMAIN recurring_chores :
     /\ IsDue(recurring_chores[id], now)
     /\ recurring_chores[id].last_generated # NULL
     /\ existingHistory(recurring_chore_history, id, recurring_chores[id].next_due_date)
     /\ \E c \in DOMAIN chores :
           /\ chores[c].recurring_id = id
           /\ DATE(chores[c].due_date) = DATE(recurring_chores[id].next_due_date)

\* ------------------------------------------------------------------ C9
\* C9: with generation runs in flight at the same time, the number of
\* history rows, and of generated chores, of a template for a calendar due
\* date is at most one.
C9_ConcurrentOncePerDueDate ==
  \A id \in 1..MaxTemplates, day \in 0..(MaxDay + 1) :
     /\ Cardinality({h \in DOMAIN recurring_chore_history :
                       /\ recurring_chore_history[h].recurring_id = id
                       /\ DATE(recurring_chore_history[h].due_date) = day}) <= 1
     /\ Cardinality({c \in DOMAIN chores :
                       chores[c].recurring_id = id /\ DATE(chores[c].due_date) = day}) <= 1

\* C9 failing state: two chores and two history rows of one template for
\* one due date, after both runs have ended.
C9_Duplicate ==
  /\ procs = EmptyTable
  /\ \E h1, h2 \in DOMAIN recurring_chore_history :
        /\ h1 # h2
        /\ recurring_chore_history[h1].recurring_id = recurring_chore_history[h2].recurring_id
        /\ recurring_chore_history[h1].due_date = recurring_chore_history[h2].due_date
        /\ recurring_chore_history[h1].chore_id # recurring_chore_history[h2].chore_id
        /\ {recurring_chore_history[h1].chore_id, recurring_chore_history[h2].chore_id}
             \subseteq DOMAIN chores

\* ------------------------------------------------------------------ C10
\* C10: once no generation run is in flight, every generated chore has its
\* history row, every automatically assigned generated chore its assignment
\* row, and the template of every history row has been advanced past that
\* row's due date.
C10_AllOrNothing ==
  procs = EmptyTable =>
    /\ \A c \in DOMAIN chores :
          chores[c].recurring_id # NULL =>
            /\ \E h \in DOMAIN recurring_chore_history :
                  recurring_chore_history[h].chore_id = c
            /\ chores[c].assigned_to # NULL =>
                  \E a \in DOMAIN chore_assignments : chore_assignments[a].chore_id = c
    /\ \A h \in DOMAIN recurring_chore_history :
          LET id == recurring_chore_history[h].recurring_id
          IN id \in DOMAIN recurring_chores =>
               recurring_chores[id].next_due_date > recurring_chore_history[h].due_date

\* C10 failing state: a run has ended with a generated chore in the table
\* and no history row for it, the template left where it was.
C10_ChoreWithoutHistory ==
  /\ procs = EmptyTable
  /\ \E c \in DOMAIN chores :
        /\ chores[c].recurring_id \in DOMAIN recurring_chores
        /\ recurring_chore_history = EmptyTable
        /\ recurring_chores[chores[c].recurring_id].next_due_date = chores[c].due_date


\* ------------------------------------------------------------------ C16
\* C16: Accept and Decline are answered 200 and can take effect exactly when
\* the caller is the chore's assigned_to and the status is
\* pending_acceptance, and 404 otherwise; an Accept step turns the caller's
\* pending assignment rows of the chore into accepted, leaves every other
\* assignment row alone, leaves an accepted row as the caller's latest one
\* and sets the chore to in_progress with the same assignee.
C16_AcceptDeclineContract ==
  /\ [](\A caller \in UserIds, id \in DOMAIN chores :
          IF chores[id].assigned_to = caller /\ chores[id].status = "pending_acceptance"
          THEN /\ AcceptCode(caller, id) = 200 /\ ENABLED Accept(caller, id)
               /\ DeclineCode(caller, id) = 200 /\ ENABLED Decline(caller, id)
          ELSE /\ AcceptCode(caller, id) = 404 /\ ~ENABLED Accept(caller, id)
               /\ DeclineCode(caller, id) = 404 /\ ~ENABLED Decline(caller, id))
  /\ [][\A caller \in UserIds, id \in DOMAIN chores :
          /\ (Accept(caller, id) \/ Decline(caller, id)) =>
               /\ chores[id].assigned_to = caller
               /\ chores[id].status = "pending_acceptance"
          /\ Accept(caller, id) =>
               /\ chores'[id].status = "in_progress"
               /\ chores'[id].assigned_to = caller
               /\ DOMAIN chore_assignments' = DOMAIN chore_assignments
               /\ \A a \in DOMAIN chore_assignments :
                    IF /\ chore_assignments[a].chore_id = id
                       /\ chore_assignments[a].user_id = caller
                       /\ chore_assignments[a].status = "pending"
                    THEN chore_assignments'[a].status = "accepted"
                    ELSE chore_assignments'[a] = chore_assignments[a]
               /\ \E a \in DOMAIN chore_assignments' :
                    /\ chore_assignments'[a].chore_id = id
                    /\ chore_assignments'[a].user_id = caller
                    /\ chore_assignments'[a].status = "accepted"
                    /\ \A b \in DOMAIN chore_assignments' :
                         (chore_assignments'[b].chore_id = id
                            /\ chore_assignments'[b].user_id = caller) => b <= a]_vars

\* C16 witness: an accepted chore: in_progress, with the assignee's accepted
\* assignment row, on which a further Accept is answered 404.
C16_Witness ==
  \E id \in DOMAIN chores, a \in DOMAIN chore_assignments :
     /\ chores[id].status = "in_progress"
     /\ chore_assignments[a].chore_id = id
     /\ chore_assignments[a].user_id = chores[id].assigned_to
     /\ chore_assignments[a].status = "accepted"
     /\ AcceptCode(chores[id].assigned_to, id) = 404

\* ------------------------------------------------------------------ C17
\* C17: a Decline step sets the caller's pending assignment rows of the
\* chore to declined, adds no assignment row, sets the chore to available
\* with assigned_to and assigned_at null, and after it an Accept of the
\* chore by the same user is answered 404.
C17_DeclineThenAcceptFails ==
  [][\A caller \in UserIds, id \in DOMAIN chores :
       Decline(caller, id) =>
         /\ chores'[id].status = "available"
         /\ chores'[id].assigned_to = NULL
         /\ chores'[id].assigned_at = NULL
         /\ DOMAIN chore_assignments' = DOMAIN chore_assignments
         /\ \A a \in DOMAIN chore_assignments :
              IF /\ chore_assignments[a].chore_id = id
                 /\ chore_assignments[a].user_id = caller
                 /\ chore_assignments[a].status = "pending"
              THEN chore_assignments'[a].status = "declined"
              ELSE chore_assignments'[a] = chore_assignments[a]
         /\ \E a \in DOMAIN chore_assignments' :
              /\ chore_assignments'[a].chore_id = id
              /\ chore_assignments'[a].user_id = caller
              /\ chore_assignments'[a].status = "declined"
         /\ AcceptCode(caller, id)' = 404]_vars

\* C17 failing state: a chore made available and unassigned by Decline
\* whose only assignment row is still accepted.
C17_AcceptedAfterDecline ==
  \E id \in DOMAIN chores :
     /\ chores[id].status = "available"
     /\ chores[id].assigned_to = NULL
     /\ \E a \in DOMAIN chore_assignments : chore_assignments[a].chore_id = id
     /\ \A a \in DOMAIN chore_assignments :
          chore_assignments[a].chore_id = id => chore_assignments[a].status = "accepted"

\* ------------------------------------------------------------------ C18
\* C18: Submit is answered 404 unless the caller is the assignee and the
\* chore is in_progress, and 400, with no step possible, when the chore
\* requires a photo and none is attached; a Submit step adds exactly one
\* chore_submissions row, pending, of the caller, referencing the caller's
\* latest assignment row of the chore, changes no other submission and sets
\* the chore to pending_approval.
C18_SubmitContract ==
  /\ [](\A caller \in UserIds, id \in DOMAIN chores, photo \in BOOLEAN :
          IF ~(chores[id].assigned_to = caller /\ chores[id].status = "in_progress")
          THEN SubmitCode(caller, id, photo) = 404 /\ ~ENABLED Submit(caller, id, photo)
          ELSE IF chores[id].requires_photo /\ ~photo
          THEN SubmitCode(caller, id, photo) = 400 /\ ~ENABLED Submit(caller, id, photo)
          ELSE SubmitCode(caller, id, photo) = 201)
  /\ [][\A caller \in UserIds, id \in DOMAIN chores, photo \in BOOLEAN :
          Submit(caller, id, photo) =>
            LET new == DOMAIN chore_submissions' \ DOMAIN chore_submissions
                mine == {a \in DOMAIN chore_assignments :
                           /\ chore_assignments[a].chore_id = id
                           /\ chore_assignments[a].user_id = caller}
            IN /\ chores[id].assigned_to = caller
               /\ chores[id].status = "in_progress"
               /\ chores[id].requires_photo => photo
               /\ Cardinality(new) = 1
               /\ \A s \in DOMAIN chore_submissions :
                    s \in DOMAIN chore_submissions' /\ chore_submissions'[s] = chore_submissions[s]
               /\ mine # {}
               /\ \A s \in new :
                    /\ chore_submissions'[s].status = "pending"
                    /\ chore_submissions'[s].chore_id = id
                    /\ chore_submissions'[s].user_id = caller
                    /\ chore_submissions'[s].assignment_id \in mine
                    /\ \A a \in mine : a <= chore_submissions'[s].assignment_id
               /\ chores'[id].status = "pending_approval"
               /\ chores'[id].assigned_to = caller]_vars

\* C18 witness: a chore that requires a photo, submitted: pending_approval
\* with the assignee's pending submission.
C18_Witness ==
  \E id \in DOMAIN chores, s \in DOMAIN chore_submissions :
     /\ chores[id].requires_photo
     /\ chores[id].status = "pending_approval"
     /\ chore_submissions[s].chore_id = id
     /\ chore_submissions[s].user_id = chores[id].assigned_to
     /\ chore_submissions[s].status = "pending"
     /\ chore_submissions[s].assignment_id \in DOMAIN chore_assignments

\* ------------------------------------------------------------------ C19
\* C19: a Reject step is made by a parent on a pending_approval chore of
\* the parent's family; it sets the latest submission of the assignee to
\* rejected and the chore to in_progress with the same assignee, and leaves
\* users (earnings, screen_time_earned) and completed_tasks unchanged.
C19_RejectFrame ==
  [][\A caller \in UserIds, id \in DOMAIN chores :
       Reject(caller, id) =>
         LET subs == {s \in DOMAIN chore_submissions :
                        /\ chore_submissions[s].chore_id = id
                        /\ chore_submissions[s].user_id = chores[id].assigned_to}
         IN /\ Role(caller) = "parent"
            /\ chores[id].family_id = FamilyOf(caller)
            /\ chores[id].status = "pending_approval"
            /\ subs # {}
            /\ \A s \in subs :
                 IF \A r \in subs : r <= s
                 THEN chore_submissions'[s].status = "rejected"
                 ELSE chore_submissions'[s] = chore_submissions[s]
            /\ chores'[id].status = "in_progress"
            /\ chores'[id].assigned_to = chores[id].assigned_to
            /\ chores'[id].assigned_to # NULL
            /\ users' = users
            /\ completed_tasks' = completed_tasks]_vars

\* C19 witness: a rejected submission: the chore back in_progress with its
\* assignee, the latest submission rejected and no balance credited.
C19_Witness ==
  \E id \in DOMAIN chores, s \in DOMAIN chore_submissions :
     /\ chores[id].status = "in_progress"
     /\ chore_submissions[s].chore_id = id
     /\ chore_submissions[s].user_id = chores[id].assigned_to
     /\ chore_submissions[s].status = "rejected"
     /\ completed_tasks = EmptyTable
     /\ \A u \in UserIds : users[u].earnings = 0 /\ users[u].screen_time_earned = 0

\* ------------------------------------------------------------------ C20
\* C20: every chore with a non-null assigned_to is assigned to a user of the
\* chore's own family.
C20_AssigneeOfFamily ==
  \A id \in DOMAIN chores :
     chores[id].assigned_to # NULL => FamilyOf(chores[id].assigned_to) = chores[id].family_id

\* C20 failing state: a chore of family 1, never patched nor re-assigned,
\* whose automatically chosen assignee belongs to family 2.
C20_ForeignAssignee ==
  \E id \in DOMAIN chores :
     /\ patched = 0
     /\ chores[id].status = "assigned"
     /\ chores[id].family_id = 1
     /\ FamilyOf(chores[id].assigned_to) = 2


\* ------------------------------------------------------------------ C12
\* C12: every chore a generation step creates comes from a template that is
\* active, whose next_due_date is not later than the end of the current day
\* and whose end_date, if any, has not passed.
C12_GeneratedOnlyWhenDue ==
  [][\A c \in DOMAIN chores' \ DOMAIN chores :
       chores'[c].recurring_id # NULL =>
         LET id == chores'[c].recurring_id
         IN /\ id \in DOMAIN recurring_chores
            /\ recurring_chores[id].is_active = 1
            /\ recurring_chores[id].next_due_date < (DATE(now) + 1) * 24
            /\ (recurring_chores[id].end_date = NULL
                  \/ recurring_chores[id].end_date >= DATE(now))]_vars

\* C12 failing state: a chore generated on the current day for a due date
\* after the end of the current day.
C12_GeneratedAhead ==
  \E c \in DOMAIN chores :
     /\ chores[c].recurring_id \in DOMAIN recurring_chores
     /\ recurring_chores[chores[c].recurring_id].last_generated = now
     /\ \E h \in DOMAIN recurring_chore_history : recurring_chore_history[h].chore_id = c
     /\ DATE(chores[c].due_date) > DATE(now)

\* ------------------------------------------------------------------ C13
\* C13: a complete generation run over a template that is due moves the
\* template's next_due_date forward, whether it creates the chore or finds
\* the history row of that date, so that repeated runs take next_due_date
\* past the end of the day.
C13_DueTemplateAdvances ==
  \A id \in DOMAIN recurring_chores :
     IsDue(recurring_chores[id], now) =>
       LET rc == recurring_chores[id]
           g == GenerateOne(Tables, id, rc, rc.created_by, 0, now)
       IN g.recurring_chores[id].next_due_date > rc.next_due_date

\* C13 failing state: a template overdue since an earlier day whose
\* next_due_date already has its history row: every run leaves all tables
\* as they are.
C13_StuckTemplate ==
  \E id \in DOMAIN recurring_chores :
     LET rc == recurring_chores[id]
     IN /\ IsDue(rc, now)
        /\ DATE(rc.next_due_date) < DATE(now)
        /\ GenerateAll(Tables, {id}, recurring_chores, NULL, 0, now) = Tables

\* ------------------------------------------------------------------ C15
\* C15: when a weekly template with a valid day_of_week is created, or its
\* next_due_date recomputed by PUT, and start_date at 09:00 is in the past,
\* the stored next_due_date is at 09:00 on the weekday day_of_week, 1 to 7
\* days after start_date.
C15_WeeklyNextOccurrence ==
  [][\A id \in DOMAIN recurring_chores' :
       LET row == recurring_chores'[id]
           days == DATE(row.next_due_date) - row.start_date
           computed ==
             \/ \E caller \in UserIds, body \in RecurringBodies :
                   id \notin DOMAIN recurring_chores /\ CreateRecurring(caller, body)
             \/ \E caller \in UserIds, body \in UpdateRecurringBodies :
                   /\ id \in DOMAIN recurring_chores
                   /\ body.start_date # Absent
                   /\ UpdateRecurring(caller, id, body)
       IN (/\ computed
           /\ row.frequency = "weekly"
           /\ \E i \in 1..7 : daysOfWeek[i] = row.day_of_week
           /\ row.start_date * 24 + 9 < now) =>
            /\ row.next_due_date % 24 = 9
            /\ \E i \in 1..7 : daysOfWeek[i] = row.day_of_week
                                 /\ DATE(row.next_due_date) % 7 = i - 1
            /\ days >= 1 /\ days <= 7]_vars


\* ------------------------------------------------------------------ C14
\* C14: a generation step for an auto-assign round_robin template with
\* member list M of length n > 0 assigns M[0] when the template has no
\* history row or its history row with the latest due_date has no assignee,
\* and otherwise M[(i+1) mod n], i being the index in M of that row's
\* assignee, or -1 (hence M[0]) when that assignee is not in M. The chore
\* and the new history row carry that assignee.
C14_RoundRobin ==
  [][\A h \in DOMAIN recurring_chore_history' \ DOMAIN recurring_chore_history :
       LET row == recurring_chore_history'[h]
           id == row.recurring_id
           rc == recurring_chores[id]
           M == rc.rotation_members
           n == Len(M)
           prior == {k \in DOMAIN recurring_chore_history :
                       recurring_chore_history[k].recurring_id = id}
           latest == {k \in prior : \A j \in prior :
                        recurring_chore_history[j].due_date
                          <= recurring_chore_history[k].due_date}
           expected ==
             IF prior = {} THEN M[1]
             ELSE LET last == recurring_chore_history[CHOOSE k \in latest : TRUE].assigned_to
                  IN IF last = NULL THEN M[1]
                     ELSE IF \E i \in 1..n : M[i] = last
                     THEN M[((CHOOSE i \in 1..n : M[i] = last) % n) + 1]
                     ELSE M[1]
       IN (rc.auto_assign = 1 /\ rc.rotation_type = "round_robin" /\ n > 0) =>
            /\ Cardinality(latest) <= 1
            /\ row.assigned_to = expected
            /\ chores'[row.chore_id].assigned_to = expected]_vars

\* C14 witness: members [2, 3, 4]; the generation before last went to 4, the
\* last member, and the latest one wrapped around to 2, the first.
C14_Witness ==
  \E id \in DOMAIN recurring_chores, h1, h2 \in DOMAIN recurring_chore_history :
     /\ recurring_chores[id].rotation_type = "round_robin"
     /\ recurring_chores[id].rotation_members = <<2, 3, 4>>
     /\ recurring_chore_history[h1].recurring_id = id
     /\ recurring_chore_history[h2].recurring_id = id
     /\ recurring_chore_history[h1].due_date < recurring_chore_history[h2].due_date
     /\ recurring_chore_history[h1].assigned_to = 4
     /\ recurring_chore_history[h2].assigned_to = 2


\* ------------------------------------------------------------------ C11
\* C11: when a write fails while a run processes one template of a batch,
\* the run goes on with the remaining selected templates.
C11_BatchContinues ==
  [][\A p \in DOMAIN procs :
       (procs[p].op = "generate" /\ GenerateWriteFails(p)) =>
         LET rest == procs[p].queue \ {Current(procs[p])}
         IN rest # {} => (p \in DOMAIN procs' /\ procs'[p].queue = rest)]_vars

\* C11 failing state: every run has ended, the first template's chore was
\* inserted and its history insert failed, and the second template of the
\* batch, still due, has neither chore nor history row nor advance.
C11_RestOfBatchSkipped ==
  /\ procs = EmptyTable
  /\ \E c \in DOMAIN chores : chores[c].recurring_id = 1
  /\ recurring_chore_history = EmptyTable
  /\ IsDue(recurring_chores[2], now)
  /\ recurring_chores[2].last_generated = NULL
  /\ \A c \in DOMAIN chores : chores[c].recurring_id # 2


C22_LockedRejectsLogin ==
  [][\A u \in LoginAccounts :
       /\ IsLocked(users[u], now) =>
            /\ \A isPasswordCorrect \in BOOLEAN :
                 LoginCode(u, isPasswordCorrect) = 423 /\ ~Login(u, isPasswordCorrect)
            /\ users'[u].login_attempts = users[u].login_attempts
            /\ users'[u].locked_until = users[u].locked_until
       /\ (users[u].locked_until # NULL /\ ~IsLocked(users[u], now)) =>
            /\ LoginCode(u, TRUE) = 200
            /\ Login(u, TRUE) => (users'[u].login_attempts = 0 /\ users'[u].locked_until = NULL)]_vars

\* C22 witness: an account that was locked, whose lock has expired with its
\* counter still at the threshold, and another that is locked now.
C22_Witness ==
  \E u, v \in LoginAccounts :
    /\ users[u].locked_until # NULL /\ ~IsLocked(users[u], now)
    /\ users[u].login_attempts >= LockThreshold
    /\ IsLocked(users[v], now)

\* ------------------------------------------------------------------ C23
\* C23: on an unlocked account a password mismatch adds exactly one to
\* login_attempts and sets locked_until 15 minutes ahead exactly when the new
\* count is at least 5 (NULL otherwise); a successful login sets the counter
\* to 0 and locked_until to NULL; an account with fewer than 5 counted
\* failures has no lock.
C23_AttemptsAndLock ==
  [][\A u \in LoginAccounts :
       /\ Login(u, FALSE) =>
            /\ ~IsLocked(users[u], now)
            /\ users'[u].login_attempts = users[u].login_attempts + 1
            /\ users'[u].locked_until =
                 IF users'[u].login_attempts >= 5 THEN Minutes(now) + 15 ELSE NULL
       /\ Login(u, TRUE) =>
            /\ ~IsLocked(users[u], now)
            /\ users'[u].login_attempts = 0
            /\ users'[u].locked_until = NULL
       /\ users[u].login_attempts < 5 => users[u].locked_until = NULL
       /\ users'[u].login_attempts < 5 => users'[u].locked_until = NULL]_vars

\* C23 witness: the fifth failure in a row has just locked an account, and a
\* sixth after the expiry has locked another again.
C23_Witness ==
  \E u, v \in LoginAccounts :
    /\ users[u].login_attempts = 5 /\ users[u].locked_until = Minutes(now) + 15
    /\ users[v].login_attempts = 6 /\ IsLocked(users[v], now)


\* ------------------------------------------------------------------ C24
\* C24: a chore is created with current_reward equal to the reward_amount of
\* the request, no step changes the current_reward of an existing chore, and
\* every step that adds a completed_tasks row records the chore's
\* current_reward as reward_earned and adds exactly that amount to the
\* balance of the user of the row; so the amount credited is the
\* reward_amount the chore was created with, whatever PATCH did to
\* reward_amount since.
C24_CurrentRewardFrozen ==
  [][/\ \A id \in DOMAIN chores' \ DOMAIN chores :
          chores'[id].current_reward = chores'[id].reward_amount
     /\ \A id \in DOMAIN chores \cap DOMAIN chores' :
          chores'[id].current_reward = chores[id].current_reward
     /\ \A t \in DOMAIN completed_tasks' \ DOMAIN completed_tasks :
          LET ct == completed_tasks'[t]
          IN /\ ct.chore_id \in DOMAIN chores
             /\ ct.reward_earned = chores[ct.chore_id].current_reward
             /\ (users'[ct.user_id].earnings + users'[ct.user_id].screen_time_earned)
                  - (users[ct.user_id].earnings + users[ct.user_id].screen_time_earned)
                = chores[ct.chore_id].current_reward]_vars

\* C24 witness: a chore created with reward 1 whose reward_amount PATCH has
\* set to 2 was approved: 1 is recorded as reward_earned and credited.
C24_Witness ==
  \E t \in DOMAIN completed_tasks :
     LET ct == completed_tasks[t]
     IN /\ ct.chore_id \in DOMAIN chores
        /\ chores[ct.chore_id].reward_amount = 2
        /\ chores[ct.chore_id].current_reward = 1
        /\ ct.reward_earned = 1
        /\ users[ct.user_id].earnings + users[ct.user_id].screen_time_earned = 1


\* ------------------------------------------------------------------ C25
\* C25: a successful POST /chores is a parent's.  When auto_assign is set and
\* an assignee is resolved (assigned_to for rotation_type none, the first of
\* rotation_members for round_robin, any of rotation_members for random) the
\* step stores the chore with that assignee and adds exactly one
\* chore_assignments row, pending, of that chore and that user; in every
\* other case it stores the chore available with assigned_to NULL and adds no
\* chore_assignments row.
C25_CreateAssignment ==
  [][\A caller \in UserIds, body \in CreateBodies :
       Create(caller, body) =>
         LET id == autoinc.chores
             a == body.assign
             resolved ==
               IF ~a.auto_assign THEN {}
               ELSE IF a.rotation_type = "none"
                    THEN {a.assigned_to} \ {NULL}
               ELSE IF a.rotation_type = "round_robin"
                    THEN {a.rotation_members[i] : i \in {1} \cap DOMAIN a.rotation_members}
               ELSE {a.rotation_members[i] : i \in DOMAIN a.rotation_members}
             added == DOMAIN chore_assignments' \ DOMAIN chore_assignments
         IN /\ Role(caller) = "parent"
            /\ DOMAIN chores' = DOMAIN chores \cup {id} /\ id \notin DOMAIN chores
            /\ \A i \in DOMAIN chore_assignments : chore_assignments'[i] = chore_assignments[i]
            /\ IF resolved # {}
               THEN /\ chores'[id].assigned_to \in resolved
                    /\ Cardinality(added) = 1
                    /\ \A i \in added :
                         /\ chore_assignments'[i].chore_id = id
                         /\ chore_assignments'[i].user_id = chores'[id].assigned_to
                         /\ chore_assignments'[i].status = "pending"
               ELSE /\ chores'[id].status = "available"
                    /\ chores'[id].assigned_to = NULL
                    /\ added = {}]_vars

\* C25 witness: a chore stored with the second member of its rotation as
\* assignee (a random pick), status assigned, and its one pending assignment.
C25_Witness ==
  \E id \in DOMAIN chores :
     /\ chores[id].status = "assigned"
     /\ chores[id].assigned_to = 3
     /\ chores[id].assigned_at # NULL
     /\ \E i \in DOMAIN chore_assignments :
          /\ chore_assignments[i] = [chore_id |-> id, user_id |-> 3, status |-> "pending"]
          /\ \A j \in DOMAIN chore_assignments : j = i


\* ------------------------------------------------------------------ C26
\* C26: a step that adds a history row for a template whose next_due_date was
\* d sets the template's last_generated and replaces next_due_date by d plus
\* one day (daily), seven days (weekly, custom) or one calendar month
\* (monthly: the same day of the following month, its last day when that
\* month is shorter), whatever day_of_week says; next_due_date increases.
C26_AdvanceByPeriod ==
  [][\A id \in DOMAIN recurring_chores \cap DOMAIN recurring_chores' :
       (\E h \in DOMAIN recurring_chore_history' \ DOMAIN recurring_chore_history :
           recurring_chore_history'[h].recurring_id = id) =>
         LET rc == recurring_chores[id]
             d == rc.next_due_date
             following == getMonth(d) + 1
             day == IF getDate(d) <= MonthLengths[following + 1]
                    THEN getDate(d) ELSE MonthLengths[following + 1]
             period == CASE rc.frequency = "daily" -> d + 24
                         [] rc.frequency = "weekly" -> d + 7 * 24
                         [] rc.frequency = "custom" -> d + 7 * 24
                         [] rc.frequency = "monthly" -> MakeDate(following, day, d % 24)
         IN /\ recurring_chores'[id].last_generated = now
            /\ recurring_chores'[id].next_due_date = period
            /\ recurring_chores'[id].next_due_date > d]_vars

\* C26 failing state: a monthly template generated for 31 January 09:00 whose
\* next_due_date is 3 March 09:00: no chore is due in February.
C26_FebruarySkipped ==
  \E id \in DOMAIN recurring_chores, h \in DOMAIN recurring_chore_history :
     /\ recurring_chores[id].frequency = "monthly"
     /\ recurring_chore_history[h].recurring_id = id
     /\ getMonth(recurring_chore_history[h].due_date) = 0
     /\ getDate(recurring_chore_history[h].due_date) = 31
     /\ recurring_chores[id].last_generated # NULL
     /\ getMonth(recurring_chores[id].next_due_date) = 2
     /\ getDate(recurring_chores[id].next_due_date) = 3


C28_PairAsSerial ==
  [][\A p \in DOMAIN procs :
       (/\ procs[p].op = "lifecycle"
        /\ procs[p].peer # {}
        /\ LifecycleTransaction(p)
        /\ procs' = EmptyTable) =>
         LET a == procs[p].request
             b == CHOOSE q \in procs[p].peer : TRUE
             s0 == procs[p].start
             Data(g) == [g EXCEPT !.autoinc = NULL]
         IN Data(LifecycleTables') \in {Data(Serve(Serve(s0, a), b)), Data(Serve(Serve(s0, b), a))}]_vars

\* C28 failing state: no request is in flight, the chore is in_progress, it has
\* no assignee, and the assignment of the user who accepted it is declined.
C28_InProgressUnassigned ==
  /\ procs = EmptyTable
  /\ \E id \in DOMAIN chores :
       /\ chores[id].status = "in_progress"
       /\ chores[id].assigned_to = NULL
       /\ \A i \in DOMAIN chore_assignments :
            chore_assignments[i].chore_id = id => chore_assignments[i].status = "declined"


\* ------------------------------------------------------------------ C29
\* C29: a transaction that returns has made every row its callback wrote a
\* row of the tables, in one step; a transaction in which beginTransaction,
\* a statement of the callback or the commit failed throws, and none of its
\* rows is ever in the tables; no other step changes the tables; the
\* connection has been released once, and only once, when transaction() is
\* left, whatever the outcome.
C29_AllOrNothingReleasedOnce ==
  [][/\ \A p \in DOMAIN procs \cap DOMAIN procs' :
          procs[p].op = "transaction" =>
            LET r == procs[p]
                after == procs'[p]
            IN /\ (r.outcome = "none" /\ after.outcome = "returned") =>
                    /\ r.pc = "commit"
                    /\ r.choreId \in DOMAIN r.written.chores
                    /\ \/ r.assignee = NULL
                       \/ \E i \in DOMAIN r.written.chore_assignments :
                            /\ r.written.chore_assignments[i].chore_id = r.choreId
                            /\ r.written.chore_assignments[i].user_id = r.assignee
                    /\ \A i \in DOMAIN r.written.chores :
                         i \in DOMAIN chores' /\ chores'[i] = r.written.chores[i]
                    /\ \A i \in DOMAIN r.written.chore_assignments :
                         /\ i \in DOMAIN chore_assignments'
                         /\ chore_assignments'[i] = r.written.chore_assignments[i]
               /\ (r.pc = "rollback" /\ after # r) => (after.outcome = "thrown")
               /\ (after.outcome = "thrown") =>
                    /\ after.choreId \notin DOMAIN chores'
                    /\ \A i \in DOMAIN chore_assignments' :
                         chore_assignments'[i].chore_id # after.choreId
               /\ after.released = IF after.pc = "done" THEN 1 ELSE 0
     /\ \A p \in DOMAIN procs \ DOMAIN procs' :
          procs[p].op = "transaction" =>
            /\ procs[p].released = 1
            /\ procs[p].outcome \in {"returned", "thrown"}
     /\ (chores' # chores \/ chore_assignments' # chore_assignments) =>
          \E p \in DOMAIN procs \cap DOMAIN procs' :
            procs[p].pc = "commit" /\ procs'[p].outcome = "returned"]_vars

\* C29 witness: one call has committed a chore with its assignment, and a call
\* whose callback had written its chore has thrown and released its connection.
C29_Witness ==
  /\ \E i \in DOMAIN chore_assignments : chore_assignments[i].chore_id \in DOMAIN chores
  /\ \E p \in DOMAIN procs :
       /\ procs[p].op = "transaction"
       /\ procs[p].pc = "done"
       /\ procs[p].outcome = "thrown"
       /\ procs[p].choreId # NULL
       /\ procs[p].released = 1


C31_ChoreAccess ==
  /\ [](\A caller \in UserIds, id \in 1..(MaxChores + 1) :
          LET exists == id \in DOMAIN chores
              allowed == /\ exists
                         /\ chores[id].family_id = FamilyOf(caller)
                         /\ \/ Role(caller) = "parent"
                            \/ chores[id].assigned_to = caller
                            \/ chores[id].created_by = caller
          IN /\ checkChoreAccess(caller, id) =
                  (IF allowed THEN 0 ELSE IF exists THEN 403 ELSE 404)
             /\ (GetChoreCode(caller, id) = 200) =>
                  (exists /\ chores[id].family_id = FamilyOf(caller)))
  /\ [][\A caller \in UserIds, id \in DOMAIN chores, body \in UpdateBodies :
          Update(caller, id, body) => chores[id].family_id = FamilyOf(caller)]_vars

\* C31 witness: a chore of family 2 is assigned to child 2 of family 1, who is
\* refused with 403, and parent 4 of family 2 has updated it.
C31_Witness ==
  \E id \in DOMAIN chores :
    /\ chores[id].family_id = 2
    /\ chores[id].assigned_to = 2
    /\ checkChoreAccess(2, id) = 403
    /\ checkChoreAccess(1, id) = 403
    /\ checkChoreAccess(4, id) = 0
    /\ patched > 0


\* ------------------------------------------------------------------ C32
\* C32: a chore in pending_acceptance has exactly one pending assignment row,
\* and that row is of the chore's assignee.
C32_OnePendingAssignment ==
  \A id \in DOMAIN chores :
    chores[id].status = "pending_acceptance" =>
      LET pending == {i \in DOMAIN chore_assignments :
                        /\ chore_assignments[i].chore_id = id
                        /\ chore_assignments[i].status = "pending"}
      IN /\ Cardinality(pending) = 1
         /\ \A i \in pending : chore_assignments[i].user_id = chores[id].assigned_to

\* C32 failing state: a chore that was assigned to child 2 and then to child 3
\* is in pending_acceptance with the row of child 2 still pending beside the
\* row of child 3.
C32_OlderRowStillPending ==
  \E id \in DOMAIN chores :
    /\ chores[id].status = "pending_acceptance"
    /\ chores[id].assigned_to = 3
    /\ \E i, j \in DOMAIN chore_assignments :
         /\ i < j
         /\ chore_assignments[i].chore_id = id /\ chore_assignments[j].chore_id = id
         /\ chore_assignments[i].user_id = 2 /\ chore_assignments[j].user_id = 3
         /\ chore_assignments[i].status = "pending"
         /\ chore_assignments[j].status = "pending"


\* ------------------------------------------------------------------ C33
RECURSIVE SumEarned(_, _, _)
\* SUM(reward_earned) over the completed_tasks rows ids of a user and a type.
SumEarned(ids, userId, rewardType) ==
  IF ids = {} THEN 0
  ELSE LET i == CHOOSE j \in ids : TRUE
           own == /\ completed_tasks[i].user_id = userId
                  /\ completed_tasks[i].reward_type = rewardType
       IN (IF own THEN completed_tasks[i].reward_earned ELSE 0)
            + SumEarned(ids \ {i}, userId, rewardType)

\* C33: each user's earnings is the sum of reward_earned over the user's
\* completed_tasks rows of type money, and screen_time_earned the sum over
\* the rows of type screen_time.
C33_BalancesAreSums ==
  \A u \in UserIds :
    /\ users[u].earnings = SumEarned(DOMAIN completed_tasks, u, "money")
    /\ users[u].screen_time_earned = SumEarned(DOMAIN completed_tasks, u, "screen_time")

\* C33 failing state: child 2 holds earnings, and the chore that earned them
\* has been deleted with its completed_tasks row.
C33_EarningsWithoutRow ==
  /\ users[2].earnings > 0
  /\ chores = EmptyTable
  /\ completed_tasks = EmptyTable
  /\ autoinc.completed_tasks > 1


\* ------------------------------------------------------------------ C34
\* C34: a step made by a request of a caller whose role is child leaves the
\* earnings, screen_time_earned and role of every user as they were; these
\* columns change only in an Approve or a user update of a parent; and the
\* user update of a child is served only for the child's own row and only
\* with keys among name, avatar_url and preferences.
C34_ChildCannotChangeBalances ==
  [][LET Guarded(u) == <<users[u].earnings, users[u].screen_time_earned, users[u].role>>
         Kept == \A u \in UserIds : Guarded(u)' = Guarded(u)
     IN /\ \A caller \in UserIds :
             Role(caller) = "child" =>
               /\ \A id \in 1..5, body \in UserBodies :
                    /\ UpdateUser(caller, id, body) => Kept
                    /\ (UpdateUserCode(caller, id, body) = 200) =>
                         /\ id = caller
                         /\ DOMAIN FilterUserFields(caller, body)
                              \subseteq {"name", "avatar_url", "preferences"}
               /\ \A body \in RaceCreateBodies : Create(caller, body) => Kept
               /\ \A id \in DOMAIN chores :
                    /\ \A userId \in UserIds : Assign(caller, id, userId) => Kept
                    /\ Accept(caller, id) => Kept
                    /\ \A photo \in BOOLEAN : Submit(caller, id, photo) => Kept
                    /\ Approve(caller, id) => Kept
        /\ ~Kept =>
             \E caller \in UserIds :
               /\ Role(caller) = "parent"
               /\ \/ \E id \in DOMAIN chores : Approve(caller, id)
                  \/ \E id \in UserIds, body \in UserBodies : UpdateUser(caller, id, body)]_vars

\* C34 witness: child 2 holds an approved reward and screen time a parent has
\* set, parent 1 has made child 3 a parent, and child 2 is served an update of
\* its own name, is answered 400 for its own earnings and role and 403 for
\* the row of another user.
C34_Witness ==
  /\ Role(2) = "child"
  /\ users[2].earnings = 1
  /\ users[2].screen_time_earned = 3
  /\ Role(3) = "parent"
  /\ UpdateUserCode(2, 2, [k \in {"name"} |-> TRUE]) = 200
  /\ UpdateUserCode(2, 2, [k \in {"earnings"} |-> 0]) = 400
  /\ UpdateUserCode(2, 2, [k \in {"role"} |-> "parent"]) = 400
  /\ UpdateUserCode(2, 1, [k \in {"name"} |-> TRUE]) = 403


\* ------------------------------------------------------------------ C35
\* C35: the k-th successful generation of a round-robin template that is never
\* updated assigns member ((k - 1) mod n) of its list of n distinct members,
\* so that n generations in a row assign every member once, in list order.
\* (The template is the only one, and a successful generation inserts one
\* history row: the id of the row is k.)
C35_RoundRobinFair ==
  \A k \in DOMAIN recurring_chore_history :
    LET h == recurring_chore_history[k]
        members == recurring_chores[h.recurring_id].rotation_members
    IN h.recurring_id \in DOMAIN recurring_chores =>
         h.assigned_to = members[((k - 1) % Len(members)) + 1]

\* C35 failing state: the chore of the first generation has been deleted, and
\* the second generation has assigned the first member of the list again.
C35_FirstMemberTwice ==
  /\ 1 \notin DOMAIN recurring_chore_history
  /\ 2 \in DOMAIN recurring_chore_history
  /\ LET h == recurring_chore_history[2]
     IN /\ h.recurring_id \in DOMAIN recurring_chores
        /\ Len(recurring_chores[h.recurring_id].rotation_members) >= 2
        /\ h.assigned_to = recurring_chores[h.recurring_id].rotation_members[1]


\* ------------------------------------------------------------------ C36
\* The handler calls of ip that fall in the window of its Map entry.
HandlerCallsInWindow(ip) ==
  {p \in DOMAIN procs : /\ procs[p].op = "handler"
                        /\ procs[p].ip = ip
                        /\ procs[p].at >= attempts[ip].resetTime - RateWindow
                        /\ procs[p].at <= attempts[ip].resetTime}

\* The handler calls made by the step for ip.
NewHandlerCalls(ip) ==
  {p \in DOMAIN procs' \ DOMAIN procs : procs'[p].op = "handler" /\ procs'[p].ip = ip}

\* C36: for each client IP the limiter passes at most maxAttempts requests to
\* the handler within a window that starts at the first counted request (the
\* count of the Map entry is the number of handler calls in its window and
\* never exceeds maxAttempts); every further request in that window is
\* answered 429 and no handler is called for it; the first request after the
\* window has expired is passed and starts a new window with count 1.
C36_RateLimitWindow ==
  /\ [](\A ip \in DOMAIN attempts :
          /\ attempts[ip].count \in 1..RateMaxAttempts
          /\ Cardinality(HandlerCallsInWindow(ip)) = attempts[ip].count
          /\ (now <= attempts[ip].resetTime /\ attempts[ip].count = RateMaxAttempts)
               => (authRateLimit(attempts, ip, now, RateMaxAttempts) = 429)
          /\ (now > attempts[ip].resetTime)
               => (authRateLimit(attempts, ip, now, RateMaxAttempts) = 0))
  /\ [][\A ip \in ClientIps :
          /\ Cardinality(NewHandlerCalls(ip)) <= 1
          /\ (/\ ip \in DOMAIN attempts
              /\ now <= attempts[ip].resetTime
              /\ attempts[ip].count = RateMaxAttempts)
               => (NewHandlerCalls(ip) = {} /\ attempts'[ip] = attempts[ip])
          /\ (NewHandlerCalls(ip) # {} /\ ip \in DOMAIN attempts /\ now > attempts[ip].resetTime)
               => (attempts'[ip] = [count |-> 1, resetTime |-> now + RateWindow])
          /\ (NewHandlerCalls(ip) # {} /\ ip \notin DOMAIN attempts)
               => (attempts'[ip] = [count |-> 1, resetTime |-> now + RateWindow])]_vars

\* One client is in a new window with count 1 after a window it had filled,
\* while another client has filled its window and is being answered 429.
C36_Witness ==
  \E ip \in DOMAIN attempts, other \in DOMAIN attempts :
    /\ ip # other
    /\ attempts[ip].count = 1
    /\ Cardinality({p \in DOMAIN procs : /\ procs[p].ip = ip
                                         /\ procs[p].at < attempts[ip].resetTime - RateWindow})
         = RateMaxAttempts
    /\ attempts[other].count = RateMaxAttempts
    /\ now <= attempts[other].resetTime
    /\ authRateLimit(attempts, other, now, RateMaxAttempts) = 429

====
